---- MODULE Spec2Model ----
(***************************************************************************)
(* Session / data-consistency core of the portfolio dashboard:             *)
(*   - SessionManager (src/src/utils/sessionManager.ts): location and      *)
(*     pending-redirect storage with TTLs and the redirect resolver;       *)
(*   - AuthProvider.signInWithGoogle / onAuthStateChange handler           *)
(*     (src/unnamed/part_006) and AuthCallback (src/src/App.tsx);          *)
(*   - PortfolioService.getCachedOrFetch and its connection probe          *)
(*     (src/src/App.tsx), usePortfolioData.loadPortfolioData               *)
(*     (src/unnamed/part_007).                                             *)
(*                                                                         *)
(* Strings that the code inspects (paths, searches, hashes) are sequences  *)
(* of tokens, so that startsWith, regular-expression prefixes and string   *)
(* concatenation are computed, not assumed: "/auth/callback" is            *)
(* <<"/", "auth", "/", "callback">> and a + b is a \o b.                   *)
(* Time is counted in minutes (Date.now() / 60000).                        *)
(***************************************************************************)
EXTENDS Integers, Sequences, FiniteSets, TLC

VARIABLES
  \* ---- browser / clock -------------------------------------------------
  now,           \* Date.now(), in minutes
  ticks,         \* number of clock advances so far (bounded)
  win,           \* window.location: [path, search, hash]
  \* ---- localStorage (sessionManager.ts) --------------------------------
  locStore,      \* entry under LOCATION_KEY, or NULL
  pendStore,     \* entry under REDIRECT_KEY, or NULL
  \* ---- observation of the SessionManager calls -------------------------
  ret,           \* the last SessionManager call: [op, arg, val, px, lx]
  prev,          \* the call before the last one, kept when the last one is
                 \* getRedirectPath and it was a storeLocation or getRedirectPath
  onlyExcluded,  \* storage started empty and every write so far was a
                 \* storeLocation given an excluded path
  \* ---- sign-in flow (AuthProvider, AuthCallback) ------------------------
  page,          \* "app" | "provider" | "callback" | "landed"
  idp,           \* the identity provider's session: NULL or [user]
  origin,        \* window.location when the hand-off to the provider was made
  attempts,      \* signInWithGoogle calls so far
  events,        \* auth-state events delivered on the callback page
  timers,        \* pending setTimeout(..., 500) of the SIGNED_IN handler
  cbPc,          \* handleAuthCallback: "idle" | "waiting" | "resolve" | "done"
  cbRuns,        \* runs of the AuthCallback effect so far
  navs,          \* targets of window.location.replace on the callback page
  \* ---- PortfolioService (App.tsx) ---------------------------------------
  cache,             \* Map: cache key -> NULL or [data, timestamp]
  isConnected,       \* outcome of the last finished connection probe
  connectionRetries, \* retryConnection attempts since the last good probe
  connectionPromise, \* "none" | "pending": the probe in flight
  calls,             \* the getCachedOrFetch invocations under way or returned
  fetchLog,          \* per key: the time of the last fetchFn that resolved
  \* ---- usePortfolioData (part_007) --------------------------------------
  hook,              \* [loading, error, isDataStale, lastFetchTime, shown]
  \* ---- PortfolioService connection probes (App.tsx) ---------------------
  probe,             \* [flying, trips, callers]: round trips and their callers
  \* ---- ConnectionManager (connectionManager.ts) -------------------------
  cm,                \* [health, issued, flying, retry, listeners, seen, seenAt,
                     \*  serial]
  \* ---- PortfolioService mutations and the backend table (App.tsx) -------
  mut,               \* [db, returned, started, m, held, since, got, asOf]
  \* ---- AuthProvider (part_006, contexts/AuthContext.tsx) ----------------
  ap,                \* [variant, user, session, userProfile, loading,
                     \*  isInitialized, isConnected, connectionError, meta,
                     \*  bg, init, got, rpc, out, carried, after]
  \* ---- AuthCallback (App.tsx) -------------------------------------------
  cb,                \* [status, runs]: the component's status and the runs of
                     \*  handleAuthCallback
  \* ---- PortfolioService real-time bridge (App.tsx) ----------------------
  rt,                \* [subscribers, userChannel, realtimeChannel, timers,
                     \*  job, subs, notes, errors]
  \* ---- a single call under examination ---------------------------------
  fx                 \* [op, ...]: the call's input and its outcome

\* null / undefined / a missing localStorage key
NULL == [absent |-> TRUE]

\* ------------------------------------------------------------------ bounds
MaxTicks == 2
MaxAttempts == 2
MaxEvents == 2
MaxRuns == 2
MaxCacheTicks == 5
MaxTrips == 3
MaxChecks == 6

\* --------------------------------------------------------------- constants
\* sessionManager.ts:27  SESSION_TIMEOUT = 24 * 60 * 60 * 1000 ms
SESSION_TIMEOUT == 24 * 60
\* sessionManager.ts:110  5 * 60 * 1000 ms
PENDING_TIMEOUT == 5
\* App.tsx:188  CACHE_DURATION = 5 * 60 * 1000 ms
CACHE_DURATION == 5
\* App.tsx:190  maxRetries = 3
maxRetries == 3
\* App.tsx:191  retryDelay = 1000 ms
retryDelay == 1000
\* connectionManager.ts:33  MAX_RETRIES = 5
MAX_RETRIES == 5
\* connectionManager.ts:34  RETRY_DELAYS, ms
RETRY_DELAYS == <<1000, 2000, 4000, 8000, 16000>>
\* part_007:37  DATA_FRESHNESS_THRESHOLD = 2 * 60 * 1000 ms
DATA_FRESHNESS_THRESHOLD == 2

\* ------------------------------------------------------------------ strings
Empty == << >>
Root == <<"/">>
AuthPrefix == <<"/", "auth", "/">>
RootQueryPrefix == <<"/", "?">>
P_auth == <<"/", "auth">>
P_callback == <<"/", "auth", "/", "callback">>
P_authReset == <<"/", "auth", "/", "reset">>
P_login == <<"/", "login">>
P_signup == <<"/", "signup">>
P_momentum == <<"/", "momentum">>
P_reports == <<"/", "reports">>
S_filter == <<"?", "filter=recent">>
S_code == <<"?", "code=abc">>
H_summary == <<"#", "summary">>

\* String.prototype.startsWith / a regular expression anchored at ^
StartsWith(s, pre) ==
  /\ Len(s) >= Len(pre)
  /\ SubSeq(s, 1, Len(pre)) = pre

\* a || b on strings: the empty string (or undefined) is falsy
OrElse(a, b) == IF a = Empty THEN b ELSE a

\* ------------------------------------------------- SessionManager (pure part)

\* a storeLocation that forgets the /auth/ subtree
StoreLocationRejects_NoSubtree(currentPath) ==
  \/ currentPath = P_callback
  \/ currentPath = Root

\* storeLocation's own exclusion test (sessionManager.ts:53)
StoreLocationRejects(currentPath) ==
  \/ currentPath = P_callback
  \/ currentPath = Root
  \/ StartsWith(currentPath, AuthPrefix)

\* storeLocation(path, search, hash) with window.location w at time t:
\* the new content of LOCATION_KEY
StoreLocationFn(store, p, s, h, w, t) ==
  LET currentPath == OrElse(p, w.path)
      currentSearch == OrElse(s, w.search)
      currentHash == OrElse(h, w.hash)
      fullPath == currentPath \o currentSearch \o currentHash
  IN IF StoreLocationRejects(currentPath)
       THEN store
       ELSE [lastLocation |-> fullPath,
             timestamp |-> t,
             locationState |-> [path |-> currentPath, search |-> currentSearch,
                                hash |-> currentHash, timestamp |-> t]]

\* storePendingRedirect(redirectTo) at time t: the new content of REDIRECT_KEY
StorePendingRedirectFn(redirectTo, t) ==
  [redirectTo |-> redirectTo, timestamp |-> t]

\* a getPendingRedirect that never expires an entry
PendingExpired_Never(entry, t) == FALSE

\* the expiry test of getPendingRedirect (sessionManager.ts:110)
PendingExpired(entry, t) == t - entry.timestamp > PENDING_TIMEOUT

\* a getPendingRedirect that reads without deleting
GetPendingRedirectFn_NoClear(store, t) ==
  IF store = NULL
    THEN [val |-> NULL, store |-> NULL]
    ELSE IF PendingExpired(store, t)
      THEN [val |-> NULL, store |-> NULL]
      ELSE [val |-> [redirectTo |-> store.redirectTo], store |-> store]

\* getPendingRedirect(): [val: the returned {redirectTo} or NULL, store: REDIRECT_KEY after]
GetPendingRedirectFn(store, t) ==
  IF store = NULL
    THEN [val |-> NULL, store |-> NULL]
    ELSE IF PendingExpired(store, t)
      THEN [val |-> NULL, store |-> NULL]
      ELSE [val |-> [redirectTo |-> store.redirectTo], store |-> NULL]

\* the expiry test of getStoredLocation (sessionManager.ts:153)
LocationExpired(entry, t) == t - entry.timestamp > SESSION_TIMEOUT

\* getStoredLocation(): [val: the returned LocationState or NULL, store: LOCATION_KEY after]
GetStoredLocationFn(store, t) ==
  IF store = NULL
    THEN [val |-> NULL, store |-> NULL]
    ELSE IF LocationExpired(store, t)
      THEN [val |-> NULL, store |-> NULL]
      ELSE [val |-> IF store.locationState # NULL
                      THEN store.locationState
                      ELSE [path |-> OrElse(store.lastLocation, P_momentum),
                            search |-> Empty, hash |-> Empty,
                            timestamp |-> store.timestamp],
            store |-> store]

\* shouldStorePath(path) (sessionManager.ts:296-313)
ShouldStorePath(path) ==
  /\ path \notin {P_callback, Root, P_login, P_signup, P_auth}
  /\ ~ \/ StartsWith(path, AuthPrefix)
       \/ StartsWith(path, RootQueryPrefix)
       \/ path = Root

\* getDefaultRedirectPath()
GetDefaultRedirectPath == P_momentum

\* a getRedirectPath that does not validate the stored location
GetRedirectPathFn_NoValidate(loc, pend, t) ==
  LET pr == GetPendingRedirectFn(pend, t)
      sl == GetStoredLocationFn(loc, t)
  IN IF pr.val # NULL
       THEN [val |-> pr.val.redirectTo, loc |-> loc, pend |-> pr.store]
       ELSE IF sl.val # NULL
         THEN [val |-> sl.val.path \o sl.val.search \o sl.val.hash,
               loc |-> sl.store, pend |-> pr.store]
         ELSE [val |-> GetDefaultRedirectPath, loc |-> sl.store, pend |-> pr.store]

\* getRedirectPath(): [val: the path, loc, pend: the two storage keys after]
GetRedirectPathFn(loc, pend, t) ==
  LET pr == GetPendingRedirectFn(pend, t)
      sl == GetStoredLocationFn(loc, t)
  IN IF pr.val # NULL
       THEN [val |-> pr.val.redirectTo, loc |-> loc, pend |-> pr.store]
       ELSE IF sl.val # NULL /\ ShouldStorePath(sl.val.path)
         THEN [val |-> sl.val.path \o sl.val.search \o sl.val.hash,
               loc |-> sl.store, pend |-> pr.store]
         ELSE [val |-> GetDefaultRedirectPath, loc |-> sl.store, pend |-> pr.store]

\* ---------------------------------------------------------------- domains
\* window.location values
W_root == [path |-> Root, search |-> Empty, hash |-> Empty]
W_reports == [path |-> P_reports, search |-> S_filter, hash |-> H_summary]
W_momentum == [path |-> P_momentum, search |-> Empty, hash |-> Empty]
W_callback == [path |-> P_callback, search |-> S_code, hash |-> Empty]

\* arguments given to storeLocation (Empty: argument omitted or '')
PathArgs == {Empty, Root, P_callback, P_authReset, P_auth, P_reports}
SearchArgs == {Empty, S_filter}
HashArgs == {Empty, H_summary}
\* targets given to storePendingRedirect
RedirectArgs == {P_momentum, P_reports}
\* clock advances, in minutes
TickSteps == {1, PENDING_TIMEOUT, SESSION_TIMEOUT}

\* LOCATION_KEY entries left by an earlier release, which stored lastLocation
\* only (the shape getStoredLocation still reads, sessionManager.ts:158-163)
PersistedLocations ==
  { [lastLocation |-> l, timestamp |-> 0, locationState |-> NULL] :
      l \in {Root, P_callback} }

FullPath(w) == w.path \o w.search \o w.hash

\* ------------------------------------------- what a caller can observe
\* The stored entries as the claims speak of them, read off the storage
\* before a call: NULL when the key is missing, otherwise the entry's
\* target, and whether it is older than its time to live.
SeenPending(store, t) ==
  IF store = NULL THEN NULL
  ELSE [target |-> store.redirectTo,
        expired |-> t - store.timestamp > 5]

SeenLocation(store, t) ==
  IF store = NULL THEN NULL
  ELSE LET st == IF store.locationState # NULL
                   THEN store.locationState
                   ELSE [path |-> store.lastLocation, search |-> Empty, hash |-> Empty]
       IN [path |-> st.path,
           full |-> st.path \o st.search \o st.hash,
           expired |-> t - store.timestamp > 24 * 60]

Live(seen) == seen # NULL /\ ~seen.expired

\* ------------------------------------------- PortfolioService: idle state
\* the cache key `portfolio_${quarter}_${userId || 'public'}` of quarter
\* Q4-2024 for the anonymous user
QuarterKey == "portfolio_Q4-2024_public"
\* the key of the same quarter for the signed-in user u1
UserKey == "portfolio_Q4-2024_u1"
Keys == {QuarterKey, UserKey}
\* the keys that direct invocations and the anonymous hook read
DirectKeys == {QuarterKey}

\* the slots for getCachedOrFetch invocations that overlap in time
CallIds == {1, 2}

NoResult == [kind |-> "none", data |-> NULL]

\* a slot with no invocation in it
IdleCall ==
  [pc |-> "idle", key |-> QuarterKey, forceFresh |-> FALSE, fallback |-> FALSE,
   fn |-> "generic",
   probe |-> "none",      \* the probe outcome a continuation is resumed with
   retried |-> FALSE,     \* the call went through retryConnection at entry
   out |-> NoResult]      \* what the call returned or threw

cacheVars ==
  <<cache, isConnected, connectionRetries, connectionPromise, calls, fetchLog, hook>>

\* the service as constructed (App.tsx:187-193) and the hook as mounted
\* (part_007:25-32)
ServiceIdle ==
  /\ cache = [k \in Keys |-> NULL]
  /\ isConnected = FALSE
  /\ connectionRetries = 0
  /\ connectionPromise = "none"
  /\ calls = [c \in CallIds |-> IdleCall]
  /\ fetchLog = [k \in Keys |-> -1]
  /\ hook = [loading |-> 0, error |-> FALSE, isDataStale |-> FALSE,
             lastFetchTime |-> 0, shown |-> "none"]

\* --------------------------------------- PortfolioService probes: idle state
\* the callers of testConnection / forceConnectionTest that overlap in time
ProbeCallers == {1, 2, 3}

IdleCaller == [pc |-> "idle", on |-> "none", res |-> "none"]

\* no round trip in flight, nobody waiting
ProbeIdle ==
  probe = [flying |-> {}, trips |-> 0,
           callers |-> [c \in ProbeCallers |-> IdleCaller]]

\* --------------------------------------------- ConnectionManager: new state
\* the callers of retryConnection that overlap in time, and the listeners
RetryCallers == {1, 2}
Listeners == {"f", "g"}

\* connectionManager.ts:25-31
InitialHealth ==
  [isConnected |-> FALSE, lastCheck |-> -1, retryCount |-> 0,
   error |-> "none", latency |-> -1]

IdleRetry == [pc |-> "idle", n |-> 0, delay |-> 0, res |-> "none"]

\* getInstance() (39-48, 278-286): the constructor has started the health
\* monitoring, whose first testConnection() is in flight
HealthIdle ==
  cm = [health |-> InitialHealth,
        issued |-> 1,
        flying |-> 1,
        retry |-> [c \in RetryCallers |-> IdleRetry],
        listeners |-> {},
        seen |-> [l \in Listeners |-> NULL],
        seenAt |-> [l \in Listeners |-> -1],
        serial |-> 0]

\* ------------------------------------ PortfolioService mutations: idle state
\* the mutations made in one run
MaxMutations == 1

\* no addConstituent / updateConstituent / deleteConstituent under way
IdleMutation == [pc |-> "idle", op |-> "none", owner |-> "none"]

\* db is the number of writes the backend has applied to the rows of the
\* public scope, which is the version of what a query of that scope returns;
\* returned counts the mutations of that scope that have resolved.  The rest
\* observes the reads: the version the cache entry holds (-1: no entry), per
\* call the version at which its fetchFn was issued, the version of the data
\* it returned, and the value of `returned` when it was invoked
MutIdle ==
  mut = [db |-> 0, returned |-> 0, started |-> 0, m |-> IdleMutation,
         held |-> -1,
         since |-> [c \in CallIds |-> 0],
         got |-> [c \in CallIds |-> -1],
         asOf |-> [c \in CallIds |-> 0]]

\* -------------------------------------------------- AuthProvider: as mounted
\* the two AuthProvider components of the repository: part_006 (with the
\* connection state that App.tsx reads from useAuth) and
\* src/contexts/AuthContext.tsx (without it)
Variants == {"part_006", "AuthContext"}

\* the provider after its first render and the start of its mount effect:
\* user, userProfile, session null, loading true, isInitialized false,
\* isConnected false (part_006:35-41); part_006 has called testConnection()
\* (92) and getInitialSession awaits a second one (100), AuthContext.tsx
\* awaits getSession (42).  meta is the SessionMetadata in STORAGE_KEY
Mounted(v, meta) ==
  [variant |-> v, user |-> NULL, session |-> NULL, userProfile |-> NULL,
   loading |-> TRUE, isInitialized |-> FALSE,
   isConnected |-> FALSE, connectionError |-> FALSE,
   meta |-> meta,
   bg |-> (v = "part_006"),     \* the probe of line 92 is in flight
   init |-> IF v = "part_006" THEN "probe" ELSE "session",
   got |-> "pending",           \* what getSession answered
   rpc |-> NULL,                \* the user ensure_user_portfolio_data was called for
   out |-> "idle",              \* signOut: "idle" | "remote" | "returned" | "threw"
   carried |-> {},              \* cache keys whose entry was written before signOut
   after |-> {},                \* the reads invoked after signOut ended
   metaAt |-> 0,                \* the timestamp of the SessionMetadata
   seen |-> [user |-> NULL, loading |-> TRUE],   \* the [user, loading] of the
                                \* last run of the restore effect
   rs |-> "none",               \* restoreSession: "none" | "probe" | "session"
                                \* | "rpc" | "profile" | "create"
   rsConn |-> FALSE,            \* the isConnected of the render that called it
   rsUser |-> NULL,             \* the user its getSession answered with
   restores |-> 0]              \* restoreSession calls so far

ProviderIdle == ap = Mounted("part_006", NULL)

\* ----------------------------------------------- AuthCallback: not mounted
\* the runs of handleAuthCallback that one visit of /auth/callback can start
MaxCallbackRuns == 2
RunIds == 1..MaxCallbackRuns

\* const maxConnectionAttempts = 10 (App.tsx:30)
maxConnectionAttempts == 10

\* a run of handleAuthCallback: where it is, the isConnected of the render
\* whose effect started it, and its connectionAttempts
NoRun == [pc |-> "none", isConnected |-> FALSE, connectionAttempts |-> 0]

CallbackIdle == cb = [status |-> "unmounted", runs |-> [r \in RunIds |-> NoRun]]

\* the callbacks that components hand to subscribeToUpdates: "f" is passed
\* with the userId of the signed-in user, "g" without a userId.  Every call
\* passes a fresh arrow function (part_007:340-350, part_008:249-259), so a
\* callback is registered at most once at a time
Callbacks == {"f", "g"}
OwnerOf(c) == IF c = "f" THEN "u1" ELSE "none"
\* subscribeToUpdates calls, change notifications and CHANNEL_ERROR statuses
MaxSubscribes == 3
MaxNotifications == 2
MaxChannelErrors == 1
\* a run of a channel's postgres_changes handler
IdleJob ==
  [pc |-> "none",       \* "none" | "fetch" | "done"
   chan |-> "none",     \* "user" | "public": the channel that was notified
   userId |-> "none",   \* the userId the handler's closure holds
   outcome |-> "none",  \* "fresh" | "fallback" | "threw" | "skipped"
   regs |-> {},         \* the subscribers when the handler ended
   calls |-> [c \in Callbacks |-> 0]]   \* invocations of c by this run

\* PortfolioService as constructed (App.tsx:184-186): no channel, no subscriber
BridgeIdle ==
  rt = [subscribers |-> {},
        userChannel |-> NULL,        \* NULL or [userId, status]
        realtimeChannel |-> NULL,    \* NULL or [userId, status]
        timers |-> 0,                \* pending setTimeout(..., 5000) of CHANNEL_ERROR
        job |-> IdleJob,             \* the latest handler run
        subs |-> 0,                  \* subscribeToUpdates calls so far
        notes |-> 0,                 \* change notifications so far
        errors |-> 0]                \* CHANNEL_ERROR statuses so far

\* no call under examination
ExamIdle == fx = [op |-> "none"]

\* ------------------------------------------------------- all the components
extVars == <<probe, cm, mut, ap, cb, rt, fx>>

ExtIdle ==
  /\ ProbeIdle
  /\ HealthIdle
  /\ MutIdle
  /\ ProviderIdle
  /\ CallbackIdle
  /\ BridgeIdle
  /\ ExamIdle

\* ---------------------------------------------------- SessionManager: calls
smVars == <<now, ticks, win, locStore, pendStore, ret, prev, onlyExcluded>>
authVars == <<page, idp, origin, attempts, events, timers, cbPc, cbRuns, navs>>
allVars == <<smVars, authVars, cacheVars, extVars>>

\* no sign-in flow under way
AuthIdle ==
  /\ page = "app"
  /\ idp = NULL
  /\ origin = NULL
  /\ attempts = 0
  /\ events = 0
  /\ timers = 0
  /\ cbPc = "idle"
  /\ cbRuns = 0
  /\ navs = << >>

NoCall == [op |-> "none", arg |-> NULL, val |-> NULL, px |-> NULL, lx |-> NULL]

\* a read: what it returned and what was stored when it was called
Read(op, val) ==
  [op |-> op, arg |-> NULL, val |-> val,
   px |-> SeenPending(pendStore, now), lx |-> SeenLocation(locStore, now)]

\* a write: its arguments
Write(op, arg, val) == [op |-> op, arg |-> arg, val |-> val, px |-> NULL, lx |-> NULL]

InitSession ==
  /\ now = 0
  /\ ticks = 0
  /\ win \in {W_root, W_reports}
  /\ locStore \in {NULL} \cup PersistedLocations
  /\ pendStore = NULL
  /\ ret = NoCall
  /\ prev = NULL
  /\ onlyExcluded = (locStore = NULL)
  /\ AuthIdle
  /\ ServiceIdle
  /\ ExtIdle

\* the clock advances
Tick ==
  /\ ticks < MaxTicks
  /\ \E d \in TickSteps : now' = now + d
  /\ ticks' = ticks + 1
  /\ UNCHANGED <<win, locStore, pendStore, ret, prev, onlyExcluded>>

\* in-app navigation: window.location changes
Navigate ==
  /\ \E w \in {W_root, W_reports} : w # win /\ win' = w
  /\ UNCHANGED <<now, ticks, locStore, pendStore, ret, prev, onlyExcluded>>

\* the paths the claims call excluded: root, the callback, the /auth/ subtree
ClaimExcluded(p) == p = Root \/ p = P_callback \/ StartsWith(p, AuthPrefix)

StoreLocation ==
  \E p \in PathArgs, s \in SearchArgs, h \in HashArgs :
    /\ locStore' = StoreLocationFn(locStore, p, s, h, win, now)
    /\ ret' = Write("storeLocation", [p |-> p, s |-> s, h |-> h],
                   [changed |-> locStore' # locStore])
    /\ prev' = NULL
    /\ onlyExcluded' = (onlyExcluded /\ ClaimExcluded(p))
    /\ UNCHANGED <<now, ticks, win, pendStore>>

StorePendingRedirect ==
  \E r \in RedirectArgs :
    /\ pendStore' = StorePendingRedirectFn(r, now)
    /\ ret' = Write("storePendingRedirect", [r |-> r], NULL)
    /\ prev' = NULL
    /\ UNCHANGED <<now, ticks, win, locStore, onlyExcluded>>

GetPendingRedirect ==
  LET r == GetPendingRedirectFn(pendStore, now)
  IN /\ pendStore' = r.store
     /\ ret' = Read("getPendingRedirect", r.val)
     /\ prev' = NULL
     /\ UNCHANGED <<now, ticks, win, locStore, onlyExcluded>>

GetStoredLocation ==
  LET r == GetStoredLocationFn(locStore, now)
  IN /\ locStore' = r.store
     /\ ret' = Read("getStoredLocation", r.val)
     /\ prev' = NULL
     /\ UNCHANGED <<now, ticks, win, pendStore, onlyExcluded>>

GetRedirectPath ==
  LET r == GetRedirectPathFn(locStore, pendStore, now)
  IN /\ locStore' = r.loc
     /\ pendStore' = r.pend
     /\ ret' = Read("getRedirectPath", [path |-> r.val])
     /\ prev' = IF ret.op \in {"storeLocation", "getRedirectPath"} THEN ret ELSE NULL
     /\ UNCHANGED <<now, ticks, win, onlyExcluded>>

\* clearAll(): clearStoredLocation, clearSessionMetadata, clearCachedData,
\* clearPendingRedirect
ClearAll ==
  /\ locStore' = NULL
  /\ pendStore' = NULL
  /\ ret' = Write("clearAll", NULL, NULL)
  /\ prev' = NULL
  /\ UNCHANGED <<now, ticks, win, onlyExcluded>>

NextSession ==
  \/ Tick /\ UNCHANGED <<authVars, cacheVars, extVars>>
  \/ Navigate /\ UNCHANGED <<authVars, cacheVars, extVars>>
  \/ StoreLocation /\ UNCHANGED <<authVars, cacheVars, extVars>>
  \/ StorePendingRedirect /\ UNCHANGED <<authVars, cacheVars, extVars>>
  \/ GetPendingRedirect /\ UNCHANGED <<authVars, cacheVars, extVars>>
  \/ GetStoredLocation /\ UNCHANGED <<authVars, cacheVars, extVars>>
  \/ GetRedirectPath /\ UNCHANGED <<authVars, cacheVars, extVars>>
  \/ ClearAll /\ UNCHANGED <<authVars, cacheVars, extVars>>

SpecSession == InitSession /\ [][NextSession]_allVars

\* ============================================================ claims C1-C7

\* the last two SessionManager calls were both getRedirectPath
GotTwice == ret.op = "getRedirectPath" /\ prev # NULL /\ prev.op = "getRedirectPath"

\* ... and the first found an unexpired PendingRedirect A and an unexpired
\* LocationState B # A
BothStored ==
  /\ GotTwice
  /\ Live(prev.px) /\ Live(prev.lx)
  /\ prev.lx.full # prev.px.target

\* the LocationState-or-default of a getRedirectPath call
LocationOrDefault(seen) ==
  IF Live(seen) /\ ShouldStorePath(seen.path) THEN seen.full ELSE P_momentum

\* C1 as stated: with an unexpired PendingRedirect A and an unexpired
\* LocationState B # A stored, getRedirectPath returns A, and a second call
\* returns the LocationState-or-default and never A again.
C1_PendingOnce_Original ==
  BothStored =>
    /\ prev.val.path = prev.px.target
    /\ ret.val.path = LocationOrDefault(ret.lx)
    /\ ret.val.path # prev.px.target

\* C1 amended: the first call returns A and deletes the PendingRedirect; the
\* second call finds no PendingRedirect and returns the LocationState-or-default
\* (B if B is still unexpired and passes the filter, otherwise '/momentum'),
\* which is A again only when A is itself that default.
C1_PendingOnce ==
  /\ BothStored =>
       /\ prev.val.path = prev.px.target
       /\ ret.px = NULL
       /\ ret.val.path = LocationOrDefault(ret.lx)
       /\ (ret.val.path = prev.px.target => prev.px.target = P_momentum)
  /\ (ret.op = "getRedirectPath" /\ Live(ret.px)) =>
       /\ ret.val.path = ret.px.target
       /\ pendStore = NULL

C1_Witness ==
  /\ BothStored
  /\ ret.val.path = prev.lx.full
  /\ prev.val.path = P_reports

\* C2: storeLocation(p, s, h) with p not excluded, followed by getRedirectPath
\* with no PendingRedirect stored, returns exactly p + s + h, whatever the
\* browser's current URL is.
C2_RoundTrip ==
  ( /\ ret.op = "getRedirectPath"
    /\ prev # NULL
    /\ prev.op = "storeLocation"
    /\ prev.arg.p # Empty
    /\ ShouldStorePath(prev.arg.p)
    /\ ret.px = NULL
    /\ Live(ret.lx) )
  => ret.val.path = prev.arg.p \o prev.arg.s \o prev.arg.h

C6_NoExcludedTarget ==
  ( /\ ret.op = "getRedirectPath"
    /\ ret.lx # NULL
    /\ ClaimExcluded(ret.lx.path) )
  => /\ ~Live(ret.px) => ret.val.path = P_momentum
     /\ Live(ret.px) => ret.val.path = ret.px.target

C6_Witness ==
  /\ ret.op = "getRedirectPath"
  /\ Live(ret.lx)
  /\ ret.lx.path = P_callback
  /\ ret.px = NULL
  /\ ret.val.path = P_momentum

\* C7: a LocationState older than 24 hours is absent to getStoredLocation and
\* purged, a PendingRedirect older than 5 minutes is absent to
\* getPendingRedirect and purged (entries exactly that old are still
\* returned), and getRedirectPath takes no target from an expired entry.
C7_TTL ==
  /\ (ret.op = "getStoredLocation" /\ ret.lx # NULL) =>
       IF ret.lx.expired
         THEN ret.val = NULL /\ locStore = NULL
         ELSE ret.val # NULL /\ locStore # NULL
  /\ (ret.op = "getPendingRedirect" /\ ret.px # NULL) =>
       /\ pendStore = NULL
       /\ IF ret.px.expired
            THEN ret.val = NULL
            ELSE ret.val = [redirectTo |-> ret.px.target]
  /\ (ret.op = "getRedirectPath" /\ ~Live(ret.px)) =>
       IF Live(ret.lx)
         THEN ret.val.path \in {ret.lx.full, P_momentum}
         ELSE ret.val.path = P_momentum /\ locStore = NULL

C7_Witness ==
  /\ ret.op = "getRedirectPath"
  /\ ret.px # NULL /\ ret.px.expired
  /\ ret.px.target = P_reports
  /\ Live(ret.lx)
  /\ now - locStore.timestamp = 24 * 60
  /\ ret.val.path = ret.lx.full

\* ================================================== sign-in round trip
\* AuthProvider.signInWithGoogle and the onAuthStateChange handler
\* (src/unnamed/part_006), AuthCallback.handleAuthCallback (src/src/App.tsx).

\* in-app locations the user can be at
AppLocations == {W_root, W_reports, W_momentum}
\* clock advances during a sign-in round trip, in minutes
AuthTickSteps == {1, PENDING_TIMEOUT}

TheUser == [user |-> "u1"]

InitAuth ==
  /\ now = 0
  /\ ticks = 0
  /\ win \in AppLocations
  /\ locStore = NULL
  /\ pendStore = NULL
  /\ ret = NoCall
  /\ prev = NULL
  /\ onlyExcluded = TRUE
  /\ AuthIdle
  /\ ServiceIdle
  /\ ExtIdle

AuthTick ==
  /\ ticks < MaxTicks
  /\ \E d \in AuthTickSteps : now' = now + d
  /\ ticks' = ticks + 1
  /\ UNCHANGED <<win, locStore, pendStore, ret, prev, onlyExcluded, authVars>>

\* the user follows an in-app link
AppNavigate ==
  /\ page = "app"
  /\ \E w \in AppLocations : w # win /\ win' = w
  /\ UNCHANGED <<now, ticks, locStore, pendStore, ret, prev, onlyExcluded, authVars>>

\* a redirect target that drops the query string and the fragment
SignInTarget_PathOnly(w) == w.path

\* signInWithGoogle: the target given to storePendingRedirect (part_006:309)
SignInTarget(w) == w.path \o w.search \o w.hash

\* signInWithGoogle: what is in LOCATION_KEY / REDIRECT_KEY when
\* supabase.auth.signInWithOAuth is called (part_006:300-314)
SignInStores(loc, pend, w, t) ==
  IF ShouldStorePath(w.path)
    THEN [loc |-> StoreLocationFn(loc, w.path, w.search, w.hash, w, t),
          pend |-> StorePendingRedirectFn(SignInTarget(w), t)]
    ELSE [loc |-> loc, pend |-> pend]

\* signInWithGoogle; signInWithOAuth either leaves for the provider or
\* fails (an error result or a throw), and then the pending redirect is cleared
SignInWithGoogle ==
  /\ page = "app"
  /\ attempts < MaxAttempts
  /\ attempts' = attempts + 1
  /\ LET st == SignInStores(locStore, pendStore, win, now)
     IN \E oauthOk \in BOOLEAN :
          IF oauthOk
            THEN /\ locStore' = st.loc
                 /\ pendStore' = st.pend
                 /\ page' = "provider"
                 /\ origin' = win
            ELSE /\ locStore' = st.loc
                 /\ pendStore' = NULL
                 /\ page' = "app"
                 /\ origin' = origin
  /\ UNCHANGED <<now, ticks, win, ret, prev, onlyExcluded, idp, events, timers,
                 cbPc, cbRuns, navs>>

\* the provider sends the browser back to /auth/callback, with a session
\* or (the user declined) without one; the app loads and AuthCallback mounts
ProviderReturn ==
  /\ page = "provider"
  /\ \E ok \in BOOLEAN : idp' = IF ok THEN TheUser ELSE NULL
  /\ page' = "callback"
  /\ win' = W_callback
  /\ cbPc' = "waiting"
  /\ cbRuns' = 1
  /\ UNCHANGED <<now, ticks, locStore, pendStore, ret, prev, onlyExcluded, origin,
                 attempts, events, timers, navs>>

\* the user gives up at the provider and opens the app again, signed out:
\* the INITIAL_SESSION event carries no session and the handler runs clearAll
ProviderAbandon ==
  /\ page = "provider"
  /\ page' = "app"
  /\ \E w \in AppLocations : win' = w
  /\ locStore' = NULL
  /\ pendStore' = NULL
  /\ origin' = NULL
  /\ UNCHANGED <<now, ticks, ret, prev, onlyExcluded, idp, attempts, events, timers,
                 cbPc, cbRuns, navs>>

\* onAuthStateChange handler on the callback page (part_006:145-186)
AuthEvent ==
  /\ page = "callback"
  /\ events < MaxEvents
  /\ events' = events + 1
  /\ \E ev \in {"SIGNED_IN", "INITIAL_SESSION", "TOKEN_REFRESHED", "SIGNED_OUT"} :
       /\ (ev = "SIGNED_OUT") => idp = NULL
       /\ (ev \in {"SIGNED_IN", "TOKEN_REFRESHED"}) => idp # NULL
       /\ IF idp # NULL
            THEN /\ timers' = IF ev = "SIGNED_IN" THEN timers + 1 ELSE timers
                 /\ UNCHANGED <<locStore, pendStore>>
            ELSE /\ locStore' = NULL
                 /\ pendStore' = NULL
                 /\ timers' = timers
  /\ UNCHANGED <<now, ticks, win, ret, prev, onlyExcluded, page, idp, origin,
                 attempts, cbPc, cbRuns, navs>>

\* performRedirect(path): the target given to window.location.replace and
\* the storage after (sessionManager.ts:352-358)
PerformRedirectFn(path, loc, pend, t) ==
  IF path # Empty
    THEN [val |-> path, loc |-> loc, pend |-> pend]
    ELSE GetRedirectPathFn(loc, pend, t)

\* getRedirectPath() followed by performRedirect(redirectPath)
ResolveAndRedirect ==
  LET r == GetRedirectPathFn(locStore, pendStore, now)
      n == PerformRedirectFn(r.val, r.loc, r.pend, now)
  IN /\ locStore' = n.loc
     /\ pendStore' = n.pend
     /\ navs' = Append(navs, n.val)

\* the SIGNED_IN handler's timer fires (part_006:166-172)
SignedInTimer ==
  /\ page = "callback"
  /\ timers > 0
  /\ timers' = timers - 1
  /\ ResolveAndRedirect
  /\ UNCHANGED <<now, ticks, win, ret, prev, onlyExcluded, page, idp, origin,
                 attempts, events, cbPc, cbRuns>>

\* handleAuthCallback: the bounded wait for the connection and
\* restoreSession, neither of which touches the two redirect keys
CallbackRestore ==
  /\ page = "callback"
  /\ cbPc = "waiting"
  /\ cbPc' = "resolve"
  /\ UNCHANGED <<now, ticks, win, locStore, pendStore, ret, prev, onlyExcluded, page,
                 idp, origin, attempts, events, timers, cbRuns, navs>>

\* handleAuthCallback: getRedirectPath and performRedirect (App.tsx:49-57)
CallbackRedirect ==
  /\ page = "callback"
  /\ cbPc = "resolve"
  /\ cbPc' = "done"
  /\ ResolveAndRedirect
  /\ UNCHANGED <<now, ticks, win, ret, prev, onlyExcluded, page, idp, origin,
                 attempts, events, timers, cbRuns>>

\* the AuthCallback effect runs again (restoreSession, isConnected or
\* connectionError changed between renders, App.tsx:72)
CallbackRerun ==
  /\ page = "callback"
  /\ cbPc = "done"
  /\ cbRuns < MaxRuns
  /\ cbRuns' = cbRuns + 1
  /\ cbPc' = "waiting"
  /\ UNCHANGED <<now, ticks, win, locStore, pendStore, ret, prev, onlyExcluded, page,
                 idp, origin, attempts, events, timers, navs>>

\* the navigation started by window.location.replace commits: the callback
\* page, its timers and its handlers are gone
PageUnload ==
  /\ page = "callback"
  /\ navs # << >>
  /\ page' = "landed"
  /\ timers' = 0
  /\ cbPc' = "idle"
  /\ UNCHANGED <<now, ticks, win, locStore, pendStore, ret, prev, onlyExcluded, idp,
                 origin, attempts, events, cbRuns, navs>>

NextAuth ==
  \/ AuthTick /\ UNCHANGED <<cacheVars, extVars>>
  \/ AppNavigate /\ UNCHANGED <<cacheVars, extVars>>
  \/ SignInWithGoogle /\ UNCHANGED <<cacheVars, extVars>>
  \/ ProviderReturn /\ UNCHANGED <<cacheVars, extVars>>
  \/ ProviderAbandon /\ UNCHANGED <<cacheVars, extVars>>
  \/ AuthEvent /\ UNCHANGED <<cacheVars, extVars>>
  \/ SignedInTimer /\ UNCHANGED <<cacheVars, extVars>>
  \/ CallbackRestore /\ UNCHANGED <<cacheVars, extVars>>
  \/ CallbackRedirect /\ UNCHANGED <<cacheVars, extVars>>
  \/ CallbackRerun /\ UNCHANGED <<cacheVars, extVars>>
  \/ PageUnload /\ UNCHANGED <<cacheVars, extVars>>

SpecAuth == InitAuth /\ [][NextAuth]_allVars

\* ============================================================ claims C3-C4

\* every navigation made on the callback page so far
NavTargets == {navs[i] : i \in 1..Len(navs)}

C4_RootGoesToDefault ==
  ( /\ page \in {"callback", "landed"}
    /\ idp # NULL
    /\ origin.path = Root )
  => \A target \in NavTargets : target = P_momentum

\* ======================================== PortfolioService.getCachedOrFetch
\* what fetchFn resolves to for key k at time t, and the fallbackData
LiveData(k, t) == [src |-> "db", key |-> k, at |-> t]
FallbackData(k) == [src |-> "fallback", key |-> k]

\* a TTL test that still accepts an entry aged exactly CACHE_DURATION
CacheFresh_Inclusive(entry, t) ==
  entry # NULL /\ t - entry.timestamp <= CACHE_DURATION

\* cached && Date.now() - cached.timestamp < this.CACHE_DURATION
CacheFresh(entry, t) ==
  entry # NULL /\ t - entry.timestamp < CACHE_DURATION

\* a fallback order that prefers fallbackData to the cached entry
DegradedChoice_FallbackFirst(entry, fb, k) ==
  IF fb THEN [kind |-> "fallback", data |-> FallbackData(k)]
  ELSE IF entry # NULL THEN [kind |-> "stale", data |-> entry.data]
  ELSE NoResult

\* the cached entry whatever its age, else fallbackData if supplied, else
\* nothing (lines 269-278 when disconnected, 301-312 when fetchFn failed)
DegradedChoice(entry, fb, k) ==
  IF entry # NULL THEN [kind |-> "stale", data |-> entry.data]
  ELSE IF fb THEN [kind |-> "fallback", data |-> FallbackData(k)]
  ELSE NoResult

\* no continuation of a resolved probe is waiting to run: timers, network
\* responses and new invocations are tasks, and run only between the
\* microtask checkpoints
Quiet == \A c \in CallIds : calls[c].pc \notin {"probed", "reprobed", "fnProbed"}

sessionRest == <<win, locStore, pendStore, ret, prev, onlyExcluded>>

InitCache ==
  /\ now = 0
  /\ ticks = 0
  /\ win = W_root
  /\ locStore = NULL
  /\ pendStore = NULL
  /\ ret = NoCall
  /\ prev = NULL
  /\ onlyExcluded = TRUE
  /\ AuthIdle
  /\ ServiceIdle
  /\ ExtIdle

\* a minute passes
CacheTick ==
  /\ ticks < MaxCacheTicks
  /\ Quiet
  /\ now' = now + 1
  /\ ticks' = ticks + 1
  /\ UNCHANGED <<sessionRest, authVars, cacheVars>>

\* getCachedOrFetch is entered: testConnection() starts a probe, or joins
\* the one in flight
StartCall(c, k, ff, fb, fn) ==
  /\ Quiet
  /\ calls[c].pc = "idle"
  /\ \A d \in CallIds : d < c => calls[d].pc # "idle"
  /\ connectionPromise' = "pending"
  /\ calls' = [calls EXCEPT ![c] =
       [IdleCall EXCEPT !.pc = "probe1", !.key = k, !.forceFresh = ff,
                        !.fallback = fb, !.fn = fn]]
  /\ UNCHANGED <<cache, isConnected, connectionRetries, fetchLog>>

\* a direct invocation getCachedOrFetch(key, fetchFn, forceFresh, fallbackData)
GetCachedOrFetch ==
  /\ \E c \in CallIds, k \in DirectKeys, ff \in BOOLEAN, fb \in BOOLEAN :
       StartCall(c, k, ff, fb, "generic")
  /\ UNCHANGED <<now, ticks, sessionRest, authVars, hook>>

\* _testConnection: the probe's round trip ends; every caller awaiting it is
\* resumed with its outcome
TestConnectionDone ==
  /\ connectionPromise = "pending"
  /\ Quiet
  /\ \E ok \in BOOLEAN :
       LET r == IF ok THEN "ok" ELSE "fail" IN
       /\ isConnected' = ok
       /\ connectionRetries' = IF ok THEN 0 ELSE connectionRetries
       /\ calls' = [c \in CallIds |->
            CASE calls[c].pc = "probe1" ->
                   [calls[c] EXCEPT !.pc = "probed", !.probe = r]
              [] calls[c].pc = "probe2" ->
                   [calls[c] EXCEPT !.pc = "reprobed", !.probe = r]
              [] calls[c].pc = "fnProbe" ->
                   [calls[c] EXCEPT !.pc = "fnProbed", !.probe = r]
              [] OTHER -> calls[c]]
  /\ connectionPromise' = "none"
  /\ UNCHANGED <<now, ticks, sessionRest, authVars, cache, fetchLog, hook>>

\* new Error('Database connection failed and no fallback data available')
ConnError == [kind |-> "connError", data |-> NULL]
\* the error fetchFn threw, rethrown
FetchError == [kind |-> "fetchError", data |-> NULL]

\* the call returns or throws; the slot keeps the result, whether the fresh
\* path was forced and whether the call went through retryConnection
Finish(me, result) ==
  [IdleCall EXCEPT !.pc = "done", !.key = me.key, !.forceFresh = me.forceFresh,
                   !.retried = me.retried, !.out = result]

\* lines 287-297: unless forceFresh, an entry younger than CACHE_DURATION is
\* returned; otherwise fetchFn is invoked
CacheCheck(c, me) ==
  LET entry == cache[me.key]
  IN IF ~me.forceFresh /\ CacheFresh(entry, now)
     THEN calls' = [calls EXCEPT ![c] =
            Finish(me, [kind |-> "hit", data |-> entry.data])]
     ELSE calls' = [calls EXCEPT ![c] =
            [me EXCEPT !.pc = "fetching", !.probe = "none"]]

\* lines 265-285: the continuation after `await this.testConnection()`
AfterProbe(c) ==
  /\ calls[c].pc = "probed"
  /\ LET me == calls[c]
         d == DegradedChoice(cache[me.key], me.fallback, me.key)
     IN IF me.probe = "ok"
        THEN CacheCheck(c, me) /\ UNCHANGED connectionRetries
        ELSE IF d # NoResult
        THEN /\ calls' = [calls EXCEPT ![c] = Finish(me, d)]
             /\ UNCHANGED connectionRetries
        \* retryConnection (238-251): gives up at maxRetries
        ELSE IF connectionRetries >= maxRetries
        THEN /\ calls' = [calls EXCEPT ![c] =
                    Finish([me EXCEPT !.retried = TRUE], ConnError)]
             /\ UNCHANGED connectionRetries
        ELSE /\ connectionRetries' = connectionRetries + 1
             /\ calls' = [calls EXCEPT ![c] =
                    [me EXCEPT !.pc = "retryWait", !.probe = "none",
                               !.retried = TRUE]]
  /\ UNCHANGED <<now, ticks, sessionRest, authVars, cache, isConnected,
                 connectionPromise, fetchLog, hook>>

\* retryConnection: the backoff timer fires, testConnection() is called
RetryTimer(c) ==
  /\ calls[c].pc = "retryWait"
  /\ Quiet
  /\ connectionPromise' = "pending"
  /\ calls' = [calls EXCEPT ![c].pc = "probe2"]
  /\ UNCHANGED <<now, ticks, sessionRest, authVars, cache, isConnected,
                 connectionRetries, fetchLog, hook>>

\* lines 281-284: the continuation after `await this.retryConnection()`
AfterRetry(c) ==
  /\ calls[c].pc = "reprobed"
  /\ LET me == calls[c] IN
       IF me.probe = "ok"
       THEN CacheCheck(c, me)
       ELSE calls' = [calls EXCEPT ![c] = Finish(me, ConnError)]
  /\ UNCHANGED <<now, ticks, sessionRest, authVars, cache, isConnected,
                 connectionRetries, connectionPromise, fetchLog, hook>>

\* lines 318-319: fetchFn resolved
FetchSucceeded(c, me) ==
  /\ cache' = [cache EXCEPT ![me.key] =
       [data |-> LiveData(me.key, now), timestamp |-> now]]
  /\ fetchLog' = [fetchLog EXCEPT ![me.key] = now]
  /\ calls' = [calls EXCEPT ![c] =
       Finish(me, [kind |-> "fresh", data |-> LiveData(me.key, now)])]

\* lines 298-316: fetchFn threw
FetchFailed(c, me) ==
  LET d == DegradedChoice(cache[me.key], me.fallback, me.key)
  IN /\ calls' = [calls EXCEPT ![c] =
          Finish(me, IF d # NoResult THEN d ELSE FetchError)]
     /\ UNCHANGED <<cache, fetchLog>>

\* the outcomes of fetchFn's query: the generic fetchFn resolves or throws;
\* getPortfolioByQuarter's (439-502) also tells a connection error apart
QueryOutcomes(fn) ==
  IF fn = "quarter" THEN {"ok", "error", "connection"} ELSE {"ok", "error"}

\* fetchFn's query ends
QueryDone(c) ==
  /\ calls[c].pc = "fetching"
  /\ Quiet
  /\ LET me == calls[c] IN
     \E res \in QueryOutcomes(me.fn) :
       CASE res = "ok" -> FetchSucceeded(c, me) /\ UNCHANGED connectionRetries
         [] res = "error" -> FetchFailed(c, me) /\ UNCHANGED connectionRetries
         \* lines 479-489: a connection error goes through retryConnection
         [] res = "connection" ->
              IF connectionRetries >= maxRetries
              THEN FetchFailed(c, me) /\ UNCHANGED connectionRetries
              ELSE /\ connectionRetries' = connectionRetries + 1
                   /\ calls' = [calls EXCEPT ![c].pc = "fnRetryWait"]
                   /\ UNCHANGED <<cache, fetchLog>>
  /\ UNCHANGED <<now, ticks, sessionRest, authVars, isConnected,
                 connectionPromise, hook>>

\* retryConnection inside fetchFn: the backoff timer fires
FnRetryTimer(c) ==
  /\ calls[c].pc = "fnRetryWait"
  /\ Quiet
  /\ connectionPromise' = "pending"
  /\ calls' = [calls EXCEPT ![c].pc = "fnProbe"]
  /\ UNCHANGED <<now, ticks, sessionRest, authVars, cache, isConnected,
                 connectionRetries, fetchLog, hook>>

\* lines 481-491: retry the query once, or rethrow
AfterFnProbe(c) ==
  /\ calls[c].pc = "fnProbed"
  /\ LET me == calls[c] IN
       IF me.probe = "ok"
       THEN /\ calls' = [calls EXCEPT ![c] =
                 [me EXCEPT !.pc = "requery", !.probe = "none"]]
            /\ UNCHANGED <<cache, fetchLog>>
       ELSE FetchFailed(c, me)
  /\ UNCHANGED <<now, ticks, sessionRest, authVars, isConnected,
                 connectionRetries, connectionPromise, hook>>

\* the retried query ends
RequeryDone(c) ==
  /\ calls[c].pc = "requery"
  /\ Quiet
  /\ LET me == calls[c] IN
     \E ok \in BOOLEAN :
       IF ok THEN FetchSucceeded(c, me) ELSE FetchFailed(c, me)
  /\ UNCHANGED <<now, ticks, sessionRest, authVars, isConnected,
                 connectionRetries, connectionPromise, hook>>

\* the direct caller has taken the result
Return(c) ==
  /\ calls[c].pc = "done"
  /\ hook.loading # c
  /\ calls' = [calls EXCEPT ![c] = IdleCall]
  /\ UNCHANGED <<now, ticks, sessionRest, authVars, cache, isConnected,
                 connectionRetries, connectionPromise, fetchLog, hook>>

\* ========================================= usePortfolioData.loadPortfolioData
\* `error` as loadPortfolioData sees it: the value captured when the callback
\* was created (deps [selectedQuarter, user?.id]), which is the initial null
\* for a hook mounted on a quarter with an anonymous user
CapturedError == FALSE

\* part_007:129-139: setLoading(true), setError(null),
\* await portfolioService.getPortfolioByQuarter(selectedQuarter, undefined),
\* which calls getCachedOrFetch(cacheKey, fetchFn, false, fallbackData)
LoadPortfolioData ==
  /\ hook.loading = 0
  /\ \E c \in CallIds :
       /\ StartCall(c, QuarterKey, FALSE, TRUE, "quarter")
       /\ hook' = [hook EXCEPT !.loading = c, !.error = FALSE]
  /\ UNCHANGED <<now, ticks, sessionRest, authVars>>

\* part_007:139-162: the continuation after the service call
LoadPortfolioDataDone ==
  /\ hook.loading # 0
  /\ calls[hook.loading].pc = "done"
  /\ LET out == calls[hook.loading].out
         threw == out.kind \in {"connError", "fetchError"}
     IN hook' =
          [loading |-> 0,
           error |-> threw,
           shown |-> IF threw THEN "mock" ELSE out.kind,
           lastFetchTime |-> IF ~CapturedError THEN now ELSE hook.lastFetchTime,
           isDataStale |-> IF ~CapturedError THEN FALSE
                           ELSE IF threw THEN TRUE ELSE hook.isDataStale]
  /\ calls' = [calls EXCEPT ![hook.loading] = IdleCall]
  /\ UNCHANGED <<now, ticks, sessionRest, authVars, cache, isConnected,
                 connectionRetries, connectionPromise, fetchLog>>

\* part_007:166-171 run by the one-minute interval (314-323); with no user
\* signed in nothing is refreshed
CheckDataFreshness ==
  /\ Quiet
  /\ hook' = [hook EXCEPT !.isDataStale =
                (now - hook.lastFetchTime > DATA_FRESHNESS_THRESHOLD)]
  /\ UNCHANGED <<now, ticks, sessionRest, authVars, cache, isConnected,
                 connectionRetries, connectionPromise, calls, fetchLog>>

\* the service under direct invocations of getCachedOrFetch
NextCache ==
  \/ CacheTick /\ UNCHANGED extVars
  \/ GetCachedOrFetch /\ UNCHANGED extVars
  \/ TestConnectionDone /\ UNCHANGED extVars
  \/ \E c \in CallIds : AfterProbe(c) /\ UNCHANGED extVars
  \/ \E c \in CallIds : RetryTimer(c) /\ UNCHANGED extVars
  \/ \E c \in CallIds : AfterRetry(c) /\ UNCHANGED extVars
  \/ \E c \in CallIds : QueryDone(c) /\ UNCHANGED extVars
  \/ \E c \in CallIds : Return(c) /\ UNCHANGED extVars

SpecCache == InitCache /\ [][NextCache]_allVars

\* the service under the hook's loads of the selected quarter
NextHook ==
  \/ CacheTick /\ UNCHANGED extVars
  \/ TestConnectionDone /\ UNCHANGED extVars
  \/ \E c \in CallIds : AfterProbe(c) /\ UNCHANGED extVars
  \/ \E c \in CallIds : QueryDone(c) /\ UNCHANGED extVars
  \/ \E c \in CallIds : FnRetryTimer(c) /\ UNCHANGED extVars
  \/ \E c \in CallIds : AfterFnProbe(c) /\ UNCHANGED extVars
  \/ \E c \in CallIds : RequeryDone(c) /\ UNCHANGED extVars
  \/ LoadPortfolioData /\ UNCHANGED extVars
  \/ LoadPortfolioDataDone /\ UNCHANGED extVars
  \/ CheckDataFreshness /\ UNCHANGED extVars

SpecHook == InitCache /\ [][NextHook]_allVars

\* =========================================================== claims C8-C10
ErrorKinds == {"connError", "fetchError"}

\* call c takes the step that follows a probe at entry reporting disconnected
DisconnectedStep(c) ==
  calls[c].pc = "probed" /\ calls[c].probe = "fail" /\ calls'[c] # calls[c]

\* call c ends in this step because fetchFn failed
FetchFailedStep(c) ==
  /\ calls[c].pc \in {"fetching", "fnProbed", "requery"}
  /\ calls'[c].pc = "done"
  /\ calls'[c].out.kind # "fresh"

\* the cached entry if one exists, else fallbackData if supplied
ServedDegraded(c) ==
  LET me == calls[c]
      entry == cache[me.key]
  IN /\ calls'[c].pc = "done"
     /\ calls'[c].out.data =
          IF entry # NULL THEN entry.data ELSE FallbackData(me.key)

HasDegraded(c) == cache[calls[c].key] # NULL \/ calls[c].fallback

\* C8 as stated: disconnected, or fetchFn failed: the cached entry however
\* old (fetchFn not invoked when disconnected), else fallbackData, else the
\* call raises an error; so a call that found itself disconnected with
\* neither never returns data.
C8_DegradedOrder_Original ==
  [][\A c \in CallIds :
       /\ (DisconnectedStep(c) /\ HasDegraded(c)) => ServedDegraded(c)
       /\ FetchFailedStep(c) =>
            IF HasDegraded(c) THEN ServedDegraded(c)
            ELSE calls'[c].out.kind \in ErrorKinds
       /\ (calls'[c].pc = "done" /\ calls'[c].retried) =>
            calls'[c].out.kind \in ErrorKinds
    ]_allVars

\* C8, amended: the order cache, fallbackData, error holds when fetchFn
\* failed (the error is fetchFn's own); when the probe reports disconnected
\* the order is cache, fallbackData, then one retryConnection: the
\* connection error is raised if no retry is left or the retry's probe fails,
\* and if it succeeds the call goes on as a connected call (TTL check, then
\* fetchFn).
C8_DegradedOrder ==
  [][\A c \in CallIds :
       /\ (DisconnectedStep(c) /\ HasDegraded(c)) => ServedDegraded(c)
       /\ FetchFailedStep(c) =>
            IF HasDegraded(c) THEN ServedDegraded(c)
            ELSE calls'[c].out.kind = "fetchError"
       /\ (DisconnectedStep(c) /\ ~HasDegraded(c)) =>
            IF connectionRetries >= 3
            THEN calls'[c].pc = "done" /\ calls'[c].out.kind = "connError"
            ELSE calls'[c].pc = "retryWait"
       /\ (calls[c].pc = "reprobed" /\ calls'[c] # calls[c]) =>
            IF calls[c].probe = "fail"
            THEN calls'[c].pc = "done" /\ calls'[c].out.kind = "connError"
            ELSE \/ calls'[c].pc = "fetching"
                 \/ /\ calls'[c].pc = "done"
                    /\ calls'[c].out.kind = "hit"
    ]_allVars

\* a call that was disconnected with neither cache nor fallbackData, retried
\* and returned fetched data; after it a disconnected call was served that
\* data from the cache
C8_Witness ==
  /\ calls[1].pc = "done" /\ calls[1].retried /\ calls[1].out.kind = "fresh"
  /\ calls[2].pc = "done" /\ calls[2].out.kind = "stale"
  /\ calls[2].out.data = calls[1].out.data
  /\ now - calls[2].out.data.at >= 5

\* C9: when stale cached data or fallback data is what the hook shows after
\* a load, its isDataStale flag is true.
C9_DegradedFlagged ==
  (hook.loading = 0 /\ hook.shown \in {"stale", "fallback"}) => hook.isDataStale

\* C10: a connected call without forceFresh is served from the cache, with
\* no fetchFn invocation, when fetchFn last resolved for the key less than 5
\* minutes ago; otherwise (never, or 5 minutes ago or more) it invokes
\* fetchFn.
C10_CacheStaleness ==
  [][\A c \in CallIds :
       ( /\ calls[c].pc \in {"probed", "reprobed"}
         /\ calls[c].probe = "ok"
         /\ ~calls[c].forceFresh
         /\ calls'[c] # calls[c] )
       => LET last == fetchLog[calls[c].key] IN
          IF last >= 0 /\ now - last < 5
          THEN /\ calls'[c].pc = "done"
               /\ calls'[c].out.data = LiveData(calls[c].key, last)
          ELSE calls'[c].pc = "fetching"
    ]_allVars

\* the data fetched 5 minutes ago served a call from the cache, and a call
\* made now is invoking fetchFn again
C10_Witness ==
  /\ fetchLog[QuarterKey] = now - 5
  /\ calls[1].pc = "done" /\ calls[1].out.kind = "hit"
  /\ calls[1].out.data.at = now - 5
  /\ calls[2].pc = "fetching" /\ ~calls[2].forceFresh

\* ================================= PortfolioService.testConnection (probes)
\* the n-th promise made by _testConnection()
ProbeId(n) == ToString(n)

probeOthers == <<smVars, authVars, cache, calls, fetchLog, hook, cm, mut, ap, cb, rt, fx>>

InitProbe == InitCache

\* testConnection() (198-207) entered with `promise` in connectionPromise:
\* a promise in flight is returned as it is; otherwise _testConnection()
\* starts a round trip and its promise is kept in connectionPromise
TestConnectionFrom(c, promise) ==
  /\ probe.callers[c].pc = "idle"
  /\ IF promise # "none"
     THEN /\ probe' = [probe EXCEPT !.callers[c] =
                 [pc |-> "await", on |-> promise, res |-> "none"]]
          /\ connectionPromise' = promise
     ELSE /\ probe.trips < MaxTrips
          /\ LET p == ProbeId(probe.trips + 1) IN
             /\ probe' = [flying |-> probe.flying \cup {p},
                          trips |-> probe.trips + 1,
                          callers |-> [probe.callers EXCEPT ![c] =
                             [pc |-> "await", on |-> p, res |-> "none"]]]
             /\ connectionPromise' = p
  /\ UNCHANGED <<isConnected, connectionRetries>>

\* a caller inside the service (ensureUserPortfolioData, getCachedOrFetch,
\* retryConnection) calls testConnection()
TestConnection(c) == TestConnectionFrom(c, connectionPromise)

\* forceConnectionTest() (685-688): connectionPromise = null, then
\* testConnection()
ForceConnectionTest(c) == TestConnectionFrom(c, "none")

\* _testConnection (209-233): the round trip of promise p ends; isConnected
\* and connectionRetries are set, the caller that started it resumes and
\* sets connectionPromise = null (205), and every caller awaiting p gets
\* the outcome
ProbeResolved(p) ==
  /\ p \in probe.flying
  /\ \E ok \in BOOLEAN :
       /\ isConnected' = ok
       /\ connectionRetries' = IF ok THEN 0 ELSE connectionRetries
       /\ probe' = [probe EXCEPT
            !.flying = @ \ {p},
            !.callers = [c \in ProbeCallers |->
               IF probe.callers[c].pc = "await" /\ probe.callers[c].on = p
               THEN [pc |-> "got", on |-> p,
                     res |-> IF ok THEN "ok" ELSE "fail"]
               ELSE probe.callers[c]]]
  /\ connectionPromise' = "none"

\* the caller goes on with the outcome it received
TakeOutcome(c) ==
  /\ probe.callers[c].pc = "got"
  /\ probe' = [probe EXCEPT !.callers[c] = IdleCaller]
  /\ UNCHANGED <<isConnected, connectionRetries, connectionPromise>>

NextProbe ==
  \/ \E c \in ProbeCallers : TestConnection(c) /\ UNCHANGED probeOthers
  \/ \E c \in ProbeCallers : ForceConnectionTest(c) /\ UNCHANGED probeOthers
  \/ \E p \in probe.flying : ProbeResolved(p) /\ UNCHANGED probeOthers
  \/ \E c \in ProbeCallers : TakeOutcome(c) /\ UNCHANGED probeOthers

SpecProbe == InitProbe /\ [][NextProbe]_allVars

\* ================================================================ claim C11
\* C11: the probe calls issued while a round trip is in flight share it:
\* at most one round trip is in flight, and every waiting caller waits for
\* that one.
C11_OneRoundTrip ==
  /\ Cardinality(probe.flying) <= 1
  /\ \A c \in ProbeCallers :
       probe.callers[c].pc = "await" => probe.callers[c].on \in probe.flying

\* ========================================================= ConnectionManager
cmOthers == <<smVars, authVars, cacheVars, probe, mut, ap, cb, rt, fx>>

InitHealth == InitCache

\* updateHealth (248-259): the health is replaced and every listener is
\* called with it (a listener that throws is caught)
UpdateHealth_Silent(c, newHealth) ==
  [c EXCEPT !.health = newHealth, !.serial = @ + 1]

UpdateHealth(c, newHealth) ==
  [c EXCEPT !.health = newHealth,
            !.serial = @ + 1,
            !.seen = [l \in Listeners |->
                        IF l \in c.listeners THEN newHealth ELSE c.seen[l]],
            !.seenAt = [l \in Listeners |->
                        IF l \in c.listeners THEN c.serial + 1 ELSE c.seenAt[l]]]

\* the ways a round trip of testConnection ends: no error, an error result,
\* an exception
ProbeOutcomes == {"ok", "error", "throw"}

\* a success that keeps the error of the health it replaces
Measured_StickyError(old, outcome, t) ==
  IF outcome = "ok"
  THEN [isConnected |-> TRUE, lastCheck |-> t, retryCount |-> 0,
        error |-> old.error, latency |-> 0]
  ELSE [isConnected |-> FALSE, lastCheck |-> t,
        retryCount |-> old.retryCount + 1,
        error |-> "message",
        latency |-> IF outcome = "error" THEN -1 ELSE 0]

\* testConnection (74-110): the health a finished round trip reports
Measured(old, outcome, t) ==
  IF outcome = "ok"
  THEN [isConnected |-> TRUE, lastCheck |-> t, retryCount |-> 0,
        error |-> "none", latency |-> 0]
  ELSE [isConnected |-> FALSE, lastCheck |-> t,
        retryCount |-> old.retryCount + 1,
        error |-> "message",
        latency |-> IF outcome = "error" THEN -1 ELSE 0]

\* the periodic health check (283-285): testConnection() starts a round trip
HealthCheck ==
  /\ cm.issued < MaxChecks
  /\ cm' = [cm EXCEPT !.issued = @ + 1, !.flying = @ + 1]

\* forceHealthCheck (308-311): one more round trip
ForceHealthCheck ==
  /\ cm.issued < MaxChecks
  /\ cm' = [cm EXCEPT !.issued = @ + 1, !.flying = @ + 1]

\* a round trip started by the monitoring or by forceHealthCheck ends
HealthCheckDone ==
  /\ cm.flying > 0
  /\ \E o \in ProbeOutcomes :
       cm' = UpdateHealth([cm EXCEPT !.flying = @ - 1],
                          Measured(cm.health, o, now))

\* a delay that does not grow
RetryDelayOf_Flat(n) == RETRY_DELAYS[1]

\* RETRY_DELAYS[Math.min(retryCount, RETRY_DELAYS.length - 1)] (122)
RetryDelayOf(n) ==
  RETRY_DELAYS[(IF n < Len(RETRY_DELAYS) - 1 THEN n ELSE Len(RETRY_DELAYS) - 1) + 1]

\* retryConnection (116-125): refused at MAX_RETRIES, else the delay is set
RetryConnection(c) ==
  /\ cm.retry[c].pc = "idle"
  /\ LET n == cm.health.retryCount IN
       IF n >= MAX_RETRIES
       THEN cm' = [cm EXCEPT !.retry[c] =
                     [pc |-> "done", n |-> n, delay |-> 0, res |-> "refused"]]
       ELSE cm' = [cm EXCEPT !.retry[c] =
                     [pc |-> "wait", n |-> n, delay |-> RetryDelayOf(n),
                      res |-> "none"]]

\* retryConnection (125-126): the delay is over, testConnection() is called
RetryDelayOver(c) ==
  /\ cm.retry[c].pc = "wait"
  /\ cm.issued < MaxChecks
  /\ cm' = [cm EXCEPT !.issued = @ + 1, !.retry[c].pc = "probing"]

\* the round trip of a retry ends
RetryProbeDone(c) ==
  /\ cm.retry[c].pc = "probing"
  /\ \E o \in ProbeOutcomes :
       cm' = UpdateHealth(
               [cm EXCEPT !.retry[c].pc = "done",
                          !.retry[c].res = IF o = "ok" THEN "ok" ELSE "fail"],
               Measured(cm.health, o, now))

\* the caller of retryConnection has its answer
RetryReturn(c) ==
  /\ cm.retry[c].pc = "done"
  /\ cm' = [cm EXCEPT !.retry[c] = IdleRetry]

\* reset (316-326)
Reset ==
  /\ cm.issued < MaxChecks
  /\ cm' = UpdateHealth([cm EXCEPT !.issued = @ + 1], InitialHealth)

\* onHealthChange (264-269): the listener is added and called at once
OnHealthChange(l) ==
  /\ cm' = [cm EXCEPT !.listeners = @ \cup {l},
                      !.seen[l] = cm.health,
                      !.seenAt[l] = cm.serial]

\* the function onHealthChange returned (270-272)
Unsubscribe(l) ==
  /\ cm.seen[l] # NULL
  /\ cm' = [cm EXCEPT !.listeners = @ \ {l}]

\* retries and health checks
NextRetry ==
  \/ HealthCheck /\ UNCHANGED cmOthers
  \/ HealthCheckDone /\ UNCHANGED cmOthers
  \/ \E c \in RetryCallers : RetryConnection(c) /\ UNCHANGED cmOthers
  \/ \E c \in RetryCallers : RetryDelayOver(c) /\ UNCHANGED cmOthers
  \/ \E c \in RetryCallers : RetryProbeDone(c) /\ UNCHANGED cmOthers
  \/ \E c \in RetryCallers : RetryReturn(c) /\ UNCHANGED cmOthers

SpecRetry == InitHealth /\ [][NextRetry]_allVars

\* listeners and health updates
NextListen ==
  \/ HealthCheck /\ UNCHANGED cmOthers
  \/ ForceHealthCheck /\ UNCHANGED cmOthers
  \/ HealthCheckDone /\ UNCHANGED cmOthers
  \/ Reset /\ UNCHANGED cmOthers
  \/ \E l \in Listeners : OnHealthChange(l) /\ UNCHANGED cmOthers
  \/ \E l \in Listeners : Unsubscribe(l) /\ UNCHANGED cmOthers

SpecListen == InitHealth /\ [][NextListen]_allVars

\* PortfolioService.retryConnection (238-248) entered with connectionRetries
\* = k: refused at maxRetries; else the count is incremented and the delay is
\* 2^(connectionRetries - 1) * retryDelay
ServiceRetry(k) ==
  IF k >= maxRetries
  THEN [wait |-> FALSE, delay |-> 0, retries |-> k]
  ELSE [wait |-> TRUE, delay |-> 2^((k + 1) - 1) * retryDelay, retries |-> k + 1]

\* ================================================================ claim C12
\* min(1000ms * 2^n, 16000ms)
BackoffDelay(n) == IF 1000 * 2^n < 16000 THEN 1000 * 2^n ELSE 16000

\* C12: a retry made at attempt index n (the retry count when
\* retryConnection is entered) waits min(1000 * 2^n, 16000) ms; a failed
\* probe never lowers the index, so the delays of successive failed attempts
\* do not decrease; once the count has reached 5 retryConnection returns
\* false at once, with no wait and no probe, and only the periodic health
\* check goes on probing.
C12_Backoff ==
  [][ /\ \A c \in RetryCallers :
           (cm.retry[c].pc = "idle" /\ cm'.retry[c].pc # "idle") =>
             LET n == cm.health.retryCount IN
             IF n >= 5
             THEN /\ cm'.retry[c].pc = "done"
                  /\ cm'.retry[c].res = "refused"
                  /\ cm'.issued = cm.issued
             ELSE /\ cm'.retry[c].pc = "wait"
                  /\ cm'.retry[c].delay = BackoffDelay(n)
      /\ (cm'.health # cm.health /\ ~cm'.health.isConnected) =>
           BackoffDelay(cm'.health.retryCount) >= BackoffDelay(cm.health.retryCount)
      /\ \A k \in 0..6 :
           /\ k >= 5 => ~ServiceRetry(k).wait
           /\ ServiceRetry(k).wait => ServiceRetry(k).delay = BackoffDelay(k)
    ]_allVars

\* a retry entered at index 4 is waiting 16000 ms, and after one more failed
\* probe another retryConnection was refused
C12_Witness ==
  /\ cm.retry[1].pc = "wait" /\ cm.retry[1].n = 4 /\ cm.retry[1].delay = 16000
  /\ cm.retry[2].pc = "done" /\ cm.retry[2].res = "refused"
  /\ cm.health.retryCount = 5

\* ================================================================ claim C20
\* a probe completion or a reset
HealthUpdateStep ==
  \/ cm'.flying < cm.flying
  \/ cm'.issued > cm.issued /\ cm'.flying = cm.flying

\* C20: a subscribed listener has been called with the current health (at
\* once when it subscribes, and in the same step as every probe completion
\* and every reset, with the updated health); a listener whose unsubscribe
\* function has been called is not called.
C20_Listeners ==
  [][\A l \in Listeners :
       /\ l \in cm'.listeners =>
            /\ cm'.seen[l] = cm'.health
            /\ cm'.seenAt[l] = cm'.serial
       /\ (l \in cm.listeners /\ HealthUpdateStep) =>
            /\ cm'.seen[l] = cm'.health
            /\ cm'.seenAt[l] = cm.seenAt[l] + 1
       /\ l \notin cm'.listeners =>
            /\ cm'.seen[l] = cm.seen[l]
            /\ cm'.seenAt[l] = cm.seenAt[l]
    ]_allVars

\* f is subscribed and has followed the health through failed probes; g,
\* unsubscribed before the first update, still holds the initial health it
\* was called with
C20_Witness ==
  /\ cm.listeners = {"f"}
  /\ cm.serial >= 3
  /\ cm.seenAt["f"] = cm.serial
  /\ cm.seen["f"] = cm.health /\ cm.health.retryCount = 2
  /\ cm.seen["g"] = InitialHealth /\ cm.seenAt["g"] = 0
\* ===================================== PortfolioService: constituent mutations
\* the user_id of the record a mutation is about ("none": null, a record of
\* the public scope), and the user_id field of updateConstituent's `updates`
\* ("none": the field is not among the updates)
Owners == {"none", "u1"}

\* constituent.user_id || 'public'
ScopeOf(owner) == IF owner = "none" THEN "public" ELSE owner

\* the parts of a cache key that a user id or 'public' can match
KeyParts(k) ==
  IF k = QuarterKey THEN {"portfolio", "Q4-2024", "public"}
  ELSE IF k = UserKey THEN {"portfolio", "Q4-2024", "u1"}
  ELSE {}

\* key.includes(pattern)
KeyIncludes(k, pattern) == pattern \in KeyParts(k)

\* App.tsx:693-706 with a pattern: every entry whose key includes it is
\* deleted; the mutation goes on to send its write
ClearCache(pattern, op, owner) ==
  /\ cache' = [k \in Keys |-> IF KeyIncludes(k, pattern) THEN NULL ELSE cache[k]]
  /\ mut' = [mut EXCEPT
       !.held = IF KeyIncludes(QuarterKey, pattern) THEN -1 ELSE @,
       !.started = @ + (IF mut.m.pc = "idle" THEN 1 ELSE 0),
       !.m = [pc |-> "write", op |-> op, owner |-> owner]]

\* the mutation sends its write with the cache left as it is
KeepCache(op, owner) ==
  /\ mut' = [mut EXCEPT
       !.started = @ + (IF mut.m.pc = "idle" THEN 1 ELSE 0),
       !.m = [pc |-> "write", op |-> op, owner |-> owner]]
  /\ UNCHANGED cache

mutRest ==
  <<now, ticks, sessionRest, authVars, isConnected, connectionRetries,
    connectionPromise, calls, fetchLog, hook, probe, cm, ap, cb, rt, fx>>

\* addConstituent (711-720): the cache of the record's scope is cleared, then
\* the insert is sent
AddConstituent(owner) ==
  /\ mut.m.pc = "idle"
  /\ mut.started < MaxMutations
  /\ Quiet
  /\ ClearCache(ScopeOf(owner), "add", owner)
  /\ UNCHANGED mutRest

\* updateConstituent (737-749): the cache is cleared only for a user_id
\* among the updates, then the update is sent
UpdateConstituent(owner, updatesUserId) ==
  /\ mut.m.pc = "idle"
  /\ mut.started < MaxMutations
  /\ Quiet
  /\ IF updatesUserId # "none"
     THEN ClearCache(updatesUserId, "update", owner)
     ELSE KeepCache("update", owner)
  /\ UNCHANGED mutRest

\* deleteConstituent (766-773): the select of the record's user_id is sent
DeleteConstituent(owner) ==
  /\ mut.m.pc = "idle"
  /\ mut.started < MaxMutations
  /\ Quiet
  /\ mut' = [mut EXCEPT !.started = @ + 1,
                        !.m = [pc |-> "lookup", op |-> "delete", owner |-> owner]]
  /\ UNCHANGED <<cache, mutRest>>

\* deleteConstituent (773-782): the select answered; with a row the cache of
\* its scope is cleared; in either case the delete is sent
DeleteLookupDone ==
  /\ mut.m.pc = "lookup"
  /\ Quiet
  /\ \E found \in BOOLEAN :
       IF found
       THEN ClearCache(ScopeOf(mut.m.owner), "delete", mut.m.owner)
       ELSE KeepCache("delete", mut.m.owner)
  /\ UNCHANGED mutRest

\* the backend applies the insert, update or delete, or refuses it; a refused
\* write makes the method throw
WriteApplied ==
  /\ mut.m.pc = "write"
  /\ \E ok \in BOOLEAN :
       mut' = [mut EXCEPT
         !.db = IF ok /\ mut.m.owner = "none" THEN @ + 1 ELSE @,
         !.m = IF ok THEN [mut.m EXCEPT !.pc = "reply"] ELSE IdleMutation]
  /\ UNCHANGED <<cache, mutRest>>

\* the response arrives: the method returns
MutationReturn ==
  /\ mut.m.pc = "reply"
  /\ Quiet
  /\ mut' = [mut EXCEPT
       !.returned = IF mut.m.owner = "none" THEN @ + 1 ELSE @,
       !.m = IdleMutation]
  /\ UNCHANGED <<cache, mutRest>>

\* what the reads see of the table: a fetchFn issued at version v resolves
\* with a version between v and the one current when it resolves; a call
\* served from the cache returns the version the entry holds
ObserveRead(c, ver) ==
  LET fetched == calls[c].pc # "done" /\ calls'[c].pc = "done"
                   /\ calls'[c].out.kind = "fresh"
      fromCache == calls[c].pc # "done" /\ calls'[c].pc = "done"
                     /\ calls'[c].out.kind \in {"hit", "stale"}
  IN mut' = [mut EXCEPT
       !.since[c] = IF calls'[c].pc = "fetching" THEN mut.db ELSE @,
       !.held = IF fetched THEN ver ELSE @,
       !.got[c] = IF fetched THEN ver ELSE IF fromCache THEN mut.held ELSE @]

\* a read of the public scope is invoked: getCachedOrFetch(key, fetchFn)
ReadScope ==
  /\ \E c \in CallIds : StartCall(c, QuarterKey, FALSE, FALSE, "generic")
  /\ UNCHANGED <<now, ticks, sessionRest, authVars, hook>>
  /\ mut' = [mut EXCEPT
       !.asOf = [c \in CallIds |->
                   IF calls[c].pc = "idle" /\ calls'[c].pc # "idle"
                   THEN mut.returned ELSE @[c]],
       !.got = [c \in CallIds |->
                   IF calls[c].pc = "idle" /\ calls'[c].pc # "idle"
                   THEN -1 ELSE @[c]]]

\* reads of the public scope interleaved with mutations
NextMutate ==
  \/ ReadScope /\ UNCHANGED <<probe, cm, ap, cb, rt, fx>>
  \/ TestConnectionDone /\ UNCHANGED extVars
  \/ \E c \in CallIds : AfterProbe(c) /\ ObserveRead(c, 0) /\ UNCHANGED <<probe, cm, ap, cb, rt, fx>>
  \/ \E c \in CallIds : RetryTimer(c) /\ UNCHANGED extVars
  \/ \E c \in CallIds : AfterRetry(c) /\ ObserveRead(c, 0) /\ UNCHANGED <<probe, cm, ap, cb, rt, fx>>
  \/ \E c \in CallIds : QueryDone(c) /\ (\E ver \in mut.since[c]..mut.db : ObserveRead(c, ver))
                          /\ UNCHANGED <<probe, cm, ap, cb, rt, fx>>
  \/ \E c \in CallIds : Return(c) /\ UNCHANGED extVars
  \/ \E o \in Owners : AddConstituent(o)
  \/ \E o \in Owners, u \in Owners : UpdateConstituent(o, u)
  \/ \E o \in Owners : DeleteConstituent(o)
  \/ DeleteLookupDone
  \/ WriteApplied
  \/ MutationReturn

SpecMutate == InitCache /\ [][NextMutate]_allVars

\* C13: a read of the public scope invoked after mutations of that scope
\* have returned is never served from the cache a value older than those
\* mutations: a cache hit returns data at least as new as the number of
\* mutations that had returned when the read was invoked
C13_Invalidation ==
  \A c \in CallIds :
    (calls[c].pc = "done" /\ calls[c].out.kind = "hit")
      => mut.got[c] >= mut.asOf[c]
\* ================================================================ AuthProvider
\* the value of isConnected that fetchUserProfile reads when it is called
\* from getInitialSession: the mount effect (deps []) holds the functions of
\* the first render, in which isConnected is useState(false) (part_006:40,
\* 90, 201-208)
CapturedIsConnected == FALSE

provRest ==
  <<now, ticks, ret, prev, onlyExcluded, page, origin, attempts, events, timers,
    cbPc, cbRuns, navs, cacheVars, probe, cm, mut, cb, rt, fx>>

\* the app is loaded, with or without a session persisted at the identity
\* provider and, with one, with or without the SessionMetadata of an earlier
\* visit
InitProvider ==
  /\ now = 0
  /\ ticks = 0
  /\ win \in AppLocations
  /\ locStore = NULL
  /\ pendStore = NULL
  /\ ret = NoCall
  /\ prev = NULL
  /\ onlyExcluded = TRUE
  /\ page = "app"
  /\ idp \in {NULL, TheUser}
  /\ origin = NULL
  /\ attempts = 0
  /\ events = 0
  /\ timers = 0
  /\ cbPc = "idle"
  /\ cbRuns = 0
  /\ navs = << >>
  /\ ServiceIdle
  /\ ProbeIdle
  /\ HealthIdle
  /\ MutIdle
  /\ CallbackIdle
  /\ BridgeIdle
  /\ ExamIdle
  /\ \E v \in Variants, m \in {NULL, idp} : ap = Mounted(v, m)

\* the location-tracking effect (part_006:358-368, AuthContext.tsx:236-245;
\* deps [user, isInitialized]): the content of LOCATION_KEY after the render
\* that follows a change from provider state a to b
Tracked(a, b, loc) ==
  IF <<a.user, a.isInitialized>> # <<b.user, b.isInitialized>>
     /\ b.user # NULL /\ b.isInitialized
  THEN IF b.variant = "part_006"
       THEN IF ShouldStorePath(win.path)
            THEN StoreLocationFn(loc, win.path, win.search, win.hash, win, now)
            ELSE loc
       ELSE IF ShouldStorePath(win.path \o win.search)
            THEN StoreLocationFn(loc, win.path \o win.search, Empty, Empty, win, now)
            ELSE loc
  ELSE loc

\* testConnection (part_006:46-70): the outcome in isConnected and
\* connectionError
Probed(a, ok) == [a EXCEPT !.isConnected = ok, !.connectionError = ~ok]

\* the testConnection() of line 92 ends
BgProbeDone ==
  /\ ap.bg
  /\ \E ok \in BOOLEAN : ap' = [Probed(ap, ok) EXCEPT !.bg = FALSE]
  /\ UNCHANGED <<win, locStore, pendStore, idp, provRest>>

\* getInitialSession: `await testConnection()` ends; whatever the outcome,
\* getSession is called (part_006:99-110)
InitProbeDone ==
  /\ ap.init = "probe"
  /\ \E ok \in BOOLEAN : ap' = [Probed(ap, ok) EXCEPT !.init = "session"]
  /\ UNCHANGED <<win, locStore, pendStore, idp, provRest>>

\* a getInitialSession whose finally block leaves loading as it is
InitFinally_StillLoading(a) == [a EXCEPT !.isInitialized = TRUE, !.init = "done"]

\* getInitialSession: finally { setLoading(false); setIsInitialized(true) }
InitFinally(a) ==
  [a EXCEPT !.loading = FALSE, !.isInitialized = TRUE, !.init = "done"]

\* the provider state moves to b, and the tracking effect runs
Render(b) ==
  /\ ap' = b
  /\ locStore' = Tracked(ap, b, locStore)

\* what getSession can answer: the persisted session, none, an error result,
\* or a thrown exception
SessionOutcomes ==
  (IF idp # NULL THEN {"session"} ELSE {"none"}) \cup {"error", "throw"}

\* getInitialSession after getSession (part_006:107-136, AuthContext.tsx:42-60)
GetSessionDone ==
  /\ ap.init = "session"
  /\ \E r \in SessionOutcomes :
       LET a == [ap EXCEPT !.got = r] IN
       CASE r = "error" ->
              Render(InitFinally(
                [a EXCEPT !.connectionError = IF a.variant = "part_006"
                                               THEN TRUE ELSE @]))
         [] r = "throw" ->
              Render(InitFinally(
                IF a.variant = "part_006"
                THEN [a EXCEPT !.connectionError = TRUE]
                ELSE [a EXCEPT !.session = NULL, !.user = NULL]))
         [] r = "none" ->
              Render(InitFinally([a EXCEPT !.session = NULL, !.user = NULL]))
         [] r = "session" ->
              LET b == [a EXCEPT !.session = idp, !.user = idp] IN
              \* fetchUserProfile: `if (!isConnected) return` (part_006:206)
              IF b.variant = "part_006" /\ ~CapturedIsConnected
              THEN Render(InitFinally(b))
              ELSE Render([b EXCEPT !.init = "rpc", !.rpc = idp])
  /\ UNCHANGED <<win, pendStore, idp, provRest>>

\* fetchUserProfile: the ensure_user_portfolio_data call ends, whatever its
\* outcome, and the profile is selected
RpcDone ==
  /\ ap.init = "rpc"
  /\ ap' = [ap EXCEPT !.init = "profile"]
  /\ UNCHANGED <<win, locStore, pendStore, idp, provRest>>

\* fetchUserProfile after the select: a row, no row, or an error
ProfileDone ==
  /\ ap.init = "profile"
  /\ \E r \in {"row", "none", "error"} :
       CASE r = "row" ->
              Render(InitFinally([ap EXCEPT !.userProfile = ap.session,
                                            !.meta = ap.session]))
         [] r = "error" -> Render(InitFinally(ap))
         [] r = "none" -> Render([ap EXCEPT !.init = "create"])
  /\ UNCHANGED <<win, pendStore, idp, provRest>>

\* createUserProfile ends
CreateDone ==
  /\ ap.init = "create"
  /\ \E ok \in BOOLEAN :
       Render(InitFinally([ap EXCEPT !.userProfile = IF ok THEN ap.session ELSE @]))
  /\ UNCHANGED <<win, pendStore, idp, provRest>>

\* signOut up to `await supabase.auth.signOut()`: setLoading(true),
\* sessionManager.clearAll()
SignOut ==
  /\ ap.out = "idle"
  /\ ap.user # NULL
  /\ ap' = [ap EXCEPT !.loading = TRUE, !.meta = NULL, !.out = "remote",
                      !.carried = {k \in Keys : cache[k] # NULL}]
  /\ locStore' = NULL
  /\ pendStore' = NULL
  /\ UNCHANGED <<win, idp, provRest>>

\* the state setters after the provider's answer (part_006:404-406)
ForceClear(a) == [a EXCEPT !.session = NULL, !.user = NULL, !.userProfile = NULL]

\* the onAuthStateChange handler for SIGNED_OUT, which the provider calls
\* before a successful signOut resolves (part_006:145-183)
SignedOutEvent(a) ==
  [a EXCEPT !.session = NULL, !.user = NULL, !.userProfile = NULL,
            !.meta = NULL, !.loading = FALSE]

\* signOut after the provider's answer: success, an error result or a throw
\* (part_006:390-413; AuthContext.tsx:251-261 rethrows both failures)
SignOutDone ==
  /\ ap.out = "remote"
  /\ \E r \in {"ok", "error", "throw"} :
       LET heard == IF r = "ok" THEN SignedOutEvent(ap) ELSE ap
           after == IF ap.variant = "part_006" THEN ForceClear(heard) ELSE heard
       IN /\ idp' = IF r = "ok" THEN NULL ELSE idp
          /\ Render([after EXCEPT
               !.loading = FALSE,
               !.out = IF ap.variant = "part_006" \/ r = "ok"
                       THEN "returned" ELSE "threw"])
          /\ pendStore' = IF r = "ok" THEN NULL ELSE pendStore
  /\ UNCHANGED <<win, provRest>>

\* the provider from app load on, on an application page
NextProvider ==
  \/ AppNavigate /\ UNCHANGED <<cacheVars, extVars>>
  \/ BgProbeDone
  \/ InitProbeDone
  \/ GetSessionDone
  \/ RpcDone
  \/ ProfileDone
  \/ CreateDone
  \/ SignOut
  \/ SignOutDone

SpecProvider == InitProvider /\ [][NextProvider]_allVars

\* C14: whatever the identity provider answers to the sign-out call, when
\* signOut ends SessionMetadata, LocationState and PendingRedirect are absent
\* from storage and user, session and userProfile are null
C14_SignOutCleanup ==
  [][(ap.out = "remote" /\ ap'.out \in {"returned", "threw"})
       => /\ ap'.meta = NULL /\ locStore' = NULL /\ pendStore' = NULL
          /\ ap'.user = NULL /\ ap'.session = NULL /\ ap'.userProfile = NULL]_allVars

\* ======================================= sign-out and the PortfolioService cache
\* `portfolio_${quarter}_${userId || 'public'}` (App.tsx:385)
KeyFor(u) == IF u = NULL THEN QuarterKey ELSE UserKey

\* the quarter of user u1 is read: getCachedOrFetch(cacheKey, fetchFn) as
\* called by getPortfolioByQuarter(quarter, userId)
ReadUserScope ==
  /\ \E c \in CallIds :
       /\ StartCall(c, KeyFor(TheUser), FALSE, FALSE, "generic")
       /\ ap' = [ap EXCEPT !.after = IF ap.out \in {"returned", "threw"}
                                     THEN @ \cup {c} ELSE @ \ {c}]
  /\ UNCHANGED <<now, ticks, sessionRest, authVars, hook, probe, cm, mut, cb, rt, fx>>

\* an entry that fetchFn has written again is no longer one from before the
\* sign-out
ObserveCarried(c) ==
  ap' = [ap EXCEPT !.carried =
           IF calls'[c].pc = "done" /\ calls'[c].out.kind = "fresh"
           THEN @ \ {calls[c].key} ELSE @]

\* the provider and the reads of the service in one page
NextSignOut ==
  \/ BgProbeDone
  \/ InitProbeDone
  \/ GetSessionDone
  \/ RpcDone
  \/ ProfileDone
  \/ CreateDone
  \/ SignOut
  \/ SignOutDone
  \/ ReadUserScope
  \/ TestConnectionDone /\ UNCHANGED extVars
  \/ \E c \in CallIds : AfterProbe(c) /\ UNCHANGED extVars
  \/ \E c \in CallIds : RetryTimer(c) /\ UNCHANGED extVars
  \/ \E c \in CallIds : AfterRetry(c) /\ UNCHANGED extVars
  \/ \E c \in CallIds : QueryDone(c) /\ ObserveCarried(c) /\ UNCHANGED <<probe, cm, mut, cb, rt, fx>>

\* the app loaded at /reports
InitSignOut ==
  /\ InitProvider
  /\ win = W_reports

SpecSignOut == InitSignOut /\ [][NextSignOut]_allVars

\* C15: sign-out clears the data cache: a read invoked after signOut has
\* ended is never served (as a cache hit or a stale entry) an entry that was
\* written before the sign-out
C15_CacheCleared ==
  \A c \in CallIds :
    (calls[c].pc = "done" /\ c \in ap.after
       /\ calls[c].out.kind \in {"hit", "stale"})
      => calls[c].key \notin ap.carried

\* ================================================ AuthCallback.handleAuthCallback
cbRest ==
  <<now, ticks, win, ret, prev, onlyExcluded, page, idp, origin, attempts, events,
    timers, cbPc, cbRuns, cacheVars, probe, cm, mut, rt, fx>>

\* isConnected as AuthCallback reads it from useAuth(): the provider's state
\* with part_006, undefined (falsy) with AuthContext.tsx, whose context value
\* has no such field
SeenConnected(a) == a.variant = "part_006" /\ a.isConnected

\* the browser has come back from the identity provider to /auth/callback
\* after a sign-in started at /reports?filter=recent#summary; the provider
\* has mounted and the effect of AuthCallback has started the first run
\* (App.tsx:22-27, 71)
InitCallback ==
  /\ now = 0
  /\ ticks = 0
  /\ win = W_callback
  /\ \E w \in {W_reports} :
       /\ origin = w
       /\ locStore = SignInStores(NULL, NULL, w, 0).loc
       /\ pendStore = SignInStores(NULL, NULL, w, 0).pend
  /\ ret = NoCall
  /\ prev = NULL
  /\ onlyExcluded = TRUE
  /\ page = "callback"
  /\ idp \in {NULL, TheUser}
  /\ attempts = 1
  /\ events = 0
  /\ timers = 0
  /\ cbPc = "idle"
  /\ cbRuns = 0
  /\ navs = << >>
  /\ ServiceIdle
  /\ ProbeIdle
  /\ HealthIdle
  /\ MutIdle
  /\ BridgeIdle
  /\ ExamIdle
  /\ \E v \in Variants : ap = Mounted(v, NULL)
  /\ cb = [status |-> "processing",
           runs |-> [r \in RunIds |->
                       IF r = 1 THEN [NoRun EXCEPT !.pc = "wait"] ELSE NoRun]]

\* a loop that waits until the connection is there
WaitOver_UntilConnected(run) == run.isConnected

\* the negation of the loop condition
\* `!isConnected && connectionAttempts < maxConnectionAttempts` (App.tsx:32)
WaitOver(run) ==
  run.isConnected \/ run.connectionAttempts >= maxConnectionAttempts

\* the 500 ms timer of the loop body fires: connectionAttempts++
CallbackWait(r) ==
  /\ page = "callback"
  /\ cb.runs[r].pc = "wait"
  /\ ~WaitOver(cb.runs[r])
  /\ cb' = [cb EXCEPT !.runs[r].connectionAttempts = @ + 1]
  /\ UNCHANGED <<locStore, pendStore, navs, ap, cbRest>>

\* the loop is left and restoreSession is called: setLoading(true)
CallbackProceed(r) ==
  /\ page = "callback"
  /\ cb.runs[r].pc = "wait"
  /\ WaitOver(cb.runs[r])
  /\ cb' = [cb EXCEPT !.runs[r].pc = "restore"]
  /\ ap' = [ap EXCEPT !.loading = TRUE]
  /\ UNCHANGED <<locStore, pendStore, navs, cbRest>>

\* what restoreSession leaves in the provider (part_006:416-461,
\* AuthContext.tsx:264-289): it never throws
Restored(a, r) ==
  [a EXCEPT
     !.loading = FALSE,
     !.isConnected = IF a.variant = "part_006" THEN r # "disconnected" ELSE @,
     !.connectionError = IF a.variant = "part_006"
                         THEN r \in {"disconnected", "error"} ELSE @,
     !.session = IF r = "session" THEN idp ELSE @,
     !.user = IF r = "session" THEN idp ELSE @]

RestoreOutcomes(a) ==
  (IF a.variant = "part_006" THEN {"disconnected"} ELSE {})
    \cup {"error"} \cup (IF idp # NULL THEN {"session"} ELSE {"none"})

\* restoreSession has ended; setStatus('redirecting'), getRedirectPath(),
\* performRedirect(redirectTo) (App.tsx:41-57)
CallbackResolve(r) ==
  /\ page = "callback"
  /\ cb.runs[r].pc = "restore"
  /\ \E res \in RestoreOutcomes(ap) : ap' = Restored(ap, res)
  /\ cb' = [cb EXCEPT !.status = "redirecting", !.runs[r].pc = "done"]
  /\ ResolveAndRedirect
  /\ UNCHANGED cbRest

\* the effect runs again after a render in which restoreSession, isConnected
\* or connectionError differ (App.tsx:71-72); the runs before it go on
CallbackEffect(r) ==
  /\ page = "callback"
  /\ cb.runs[r].pc = "none"
  /\ \A q \in RunIds : q < r => cb.runs[q].pc # "none"
  /\ cb' = [cb EXCEPT !.status = "processing",
                      !.runs[r] = [pc |-> "wait", isConnected |-> SeenConnected(ap),
                                   connectionAttempts |-> 0]]
  /\ UNCHANGED <<locStore, pendStore, navs, ap, cbRest>>

\* the navigation started by window.location.replace commits and the page,
\* with its components and timers, is gone
CallbackUnload ==
  /\ page = "callback"
  /\ navs # << >>
  /\ page' = "landed"
  /\ cb' = [cb EXCEPT !.status = "unmounted"]
  /\ UNCHANGED <<now, ticks, win, locStore, pendStore, ret, prev, onlyExcluded, idp,
                 origin, attempts, events, timers, cbPc, cbRuns, navs, cacheVars,
                 probe, cm, mut, ap, rt, fx>>

\* the provider's connection probes on the callback page
CallbackProbes ==
  /\ page = "callback"
  /\ (BgProbeDone \/ InitProbeDone)
  /\ UNCHANGED cb

NextCallback ==
  \/ \E r \in RunIds : CallbackWait(r)
  \/ \E r \in RunIds : CallbackProceed(r)
  \/ \E r \in RunIds : CallbackResolve(r)
  \/ \E r \in RunIds : CallbackEffect(r)
  \/ CallbackUnload
  \/ CallbackProbes

SpecCallback == InitCallback /\ [][NextCallback]_allVars

\* timers fire, requests are answered and a started navigation commits
LiveCallback ==
  /\ SpecCallback
  /\ \A r \in RunIds : WF_allVars(CallbackWait(r))
  /\ \A r \in RunIds : WF_allVars(CallbackProceed(r))
  /\ \A r \in RunIds : WF_allVars(CallbackResolve(r))
  /\ WF_allVars(CallbackUnload)

LiveProvider ==
  /\ SpecProvider
  /\ WF_allVars(InitProbeDone)
  /\ WF_allVars(GetSessionDone)
  /\ WF_allVars(RpcDone)
  /\ WF_allVars(ProfileDone)
  /\ WF_allVars(CreateDone)

C18_InitialSession ==
  [][(/\ ap.init # "done" /\ ap'.init = "done"
      /\ ap'.got = "session"
      /\ ap'.out = "idle"
      /\ (ap.variant = "part_006" => ap.isConnected /\ ~ap.bg))
       => /\ ap'.user = idp /\ ap'.session = idp
          /\ ap'.rpc = idp]_allVars

\* ============================================================== claim C19
\* signInWithGoogle in both providers: what is stored at the hand-off.

\* signInWithGoogle of the earlier provider (AuthContext.tsx:210-216):
\* shouldStorePath and storeLocation are given pathname + search as the path,
\* search and hash are left to storeLocation's window.location defaults, and
\* storePendingRedirect is not called
SignInStoresEarlier(loc, pend, w, t) ==
  LET currentPath == w.path \o w.search
  IN IF ShouldStorePath(currentPath)
       THEN [loc |-> StoreLocationFn(loc, currentPath, Empty, Empty, w, t),
             pend |-> pend]
       ELSE [loc |-> loc, pend |-> pend]

\* the two storage keys when signInWithOAuth is called, by provider
SignInStoresOf(variant, loc, pend, w, t) ==
  IF variant = "part_006"
    THEN SignInStores(loc, pend, w, t)
    ELSE SignInStoresEarlier(loc, pend, w, t)

\* signInWithGoogle of the mounted provider; signInWithOAuth leaves for the
\* identity provider or fails, and only part_006 then clears the pending
\* redirect (part_006:335-340; AuthContext.tsx:224-229 alerts and returns)
SignInHandOff ==
  /\ page = "app"
  /\ attempts < MaxAttempts
  /\ attempts' = attempts + 1
  /\ LET st == SignInStoresOf(ap.variant, locStore, pendStore, win, now)
     IN \E oauthOk \in BOOLEAN :
          IF oauthOk
            THEN /\ locStore' = st.loc
                 /\ pendStore' = st.pend
                 /\ page' = "provider"
                 /\ origin' = win
            ELSE /\ locStore' = st.loc
                 /\ pendStore' = IF ap.variant = "part_006" THEN NULL ELSE st.pend
                 /\ page' = "app"
                 /\ origin' = origin
  /\ UNCHANGED <<now, ticks, win, ret, prev, onlyExcluded, idp, events, timers,
                 cbPc, cbRuns, navs>>

InitHandOff ==
  /\ now = 0
  /\ ticks = 0
  /\ win \in AppLocations
  /\ locStore = NULL
  /\ pendStore = NULL
  /\ ret = NoCall
  /\ prev = NULL
  /\ onlyExcluded = TRUE
  /\ AuthIdle
  /\ ServiceIdle
  /\ ProbeIdle /\ HealthIdle /\ MutIdle /\ CallbackIdle /\ BridgeIdle /\ ExamIdle
  /\ \E v \in Variants : ap = Mounted(v, NULL)

NextHandOff ==
  \/ AuthTick /\ UNCHANGED <<cacheVars, extVars>>
  \/ AppNavigate /\ UNCHANGED <<cacheVars, extVars>>
  \/ SignInHandOff /\ UNCHANGED <<cacheVars, extVars>>

SpecHandOff == InitHandOff /\ [][NextHandOff]_allVars

\* C19: when signInWithGoogle hands off to the identity provider from a
\* non-excluded location p+s+h, a LocationState for (p, s, h) and a
\* PendingRedirect with target p+s+h are both stored, and getRedirectPath()
\* returns p+s+h from either one with the other removed
C19_BeltAndSuspenders ==
  [][(/\ page = "app" /\ page' = "provider"
      /\ ShouldStorePath(win.path))
       => /\ locStore' # NULL
          /\ locStore'.locationState.path = win.path
          /\ locStore'.locationState.search = win.search
          /\ locStore'.locationState.hash = win.hash
          /\ pendStore' # NULL
          /\ pendStore'.redirectTo = win.path \o win.search \o win.hash
          /\ GetRedirectPathFn(locStore', NULL, now').val
               = win.path \o win.search \o win.hash
          /\ GetRedirectPathFn(NULL, pendStore', now').val
               = win.path \o win.search \o win.hash]_allVars

\* ================================== PortfolioService.subscribeToUpdates
\* The real-time bridge (App.tsx:823-957).  One quarter is selected
\* throughout; the refetch of a handler is one step whose outcomes are those
\* of getPortfolioByQuarter, and one handler run is followed at a time.

bridgeRest ==
  <<now, ticks, sessionRest, authVars, isConnected, connectionRetries,
    connectionPromise, calls, fetchLog, hook, probe, cm, mut, ap, cb, fx>>

InitBridge == InitCache

\* supabase.channel(...).on(...).subscribe(...): a channel whose handler
\* closes over the userId of the call that creates it (834-843, 895-904)
OpenChannel(owner) == [userId |-> owner, status |-> "joining"]

\* the channels after the last subscriber left
CloseIfLast_Never(subscribers, chans) == chans

\* the unsubscribe function's close (946-955): with no subscriber left and a
\* public channel, both channels are unsubscribed and forgotten
CloseIfLast(subscribers, chans) ==
  IF subscribers = {} /\ chans.realtimeChannel # NULL
    THEN [userChannel |-> NULL, realtimeChannel |-> NULL]
    ELSE chans

\* subscribeToUpdates(callback, quarter, userId) (823-939)
SubscribeToUpdates(c) ==
  /\ c \notin rt.subscribers
  /\ rt.subs < MaxSubscribes
  /\ LET owner == OwnerOf(c)
     IN rt' = [rt EXCEPT
       !.subscribers = @ \cup {c},
       !.subs = @ + 1,
       !.userChannel = IF owner # "none" /\ @ = NULL THEN OpenChannel(owner) ELSE @,
       !.realtimeChannel = IF @ = NULL THEN OpenChannel(owner) ELSE @]
  /\ UNCHANGED <<cache, bridgeRest>>

\* the function subscribeToUpdates returned for callback c (941-956)
UnsubscribeUpdates(c) ==
  /\ c \in rt.subscribers
  /\ LET left == rt.subscribers \ {c}
         chans == CloseIfLast(left, [userChannel |-> rt.userChannel,
                                     realtimeChannel |-> rt.realtimeChannel])
     IN rt' = [rt EXCEPT !.subscribers = left,
                         !.userChannel = chans.userChannel,
                         !.realtimeChannel = chans.realtimeChannel]
  /\ UNCHANGED <<cache, bridgeRest>>

\* the server accepts the join of a channel: status SUBSCRIBED (877, 935-937)
ChannelJoined(field) ==
  /\ rt[field] # NULL
  /\ rt[field].status = "joining"
  /\ rt' = [rt EXCEPT ![field].status = "SUBSCRIBED"]
  /\ UNCHANGED <<cache, bridgeRest>>

\* status CHANNEL_ERROR on the user channel (879-888): a timer is set
UserChannelError ==
  /\ rt.userChannel # NULL
  /\ rt.userChannel.status \in {"joining", "SUBSCRIBED"}
  /\ rt.errors < MaxChannelErrors
  /\ rt' = [rt EXCEPT !.userChannel.status = "CHANNEL_ERROR",
                      !.timers = @ + 1,
                      !.errors = @ + 1]
  /\ UNCHANGED <<cache, bridgeRest>>

\* status CHANNEL_ERROR on the public channel (935-937): it is logged
PublicChannelError ==
  /\ rt.realtimeChannel # NULL
  /\ rt.realtimeChannel.status \in {"joining", "SUBSCRIBED"}
  /\ rt.errors < MaxChannelErrors
  /\ rt' = [rt EXCEPT !.realtimeChannel.status = "CHANNEL_ERROR",
                      !.errors = @ + 1]
  /\ UNCHANGED <<cache, bridgeRest>>

\* the timer of a CHANNEL_ERROR fires (882-887): whatever user channel there
\* is now is unsubscribed and forgotten
ReconnectTimer ==
  /\ rt.timers > 0
  /\ rt' = [rt EXCEPT !.timers = @ - 1, !.userChannel = NULL]
  /\ UNCHANGED <<cache, bridgeRest>>

\* this.clearCache(pattern) as a handler calls it (848, 909)
HandlerClear(pattern) ==
  [k \in Keys |-> IF KeyIncludes(k, pattern) THEN NULL ELSE cache[k]]

\* a handler run that goes on to its refetch (851-858, 913-920)
Fetching(chan, owner) ==
  [IdleJob EXCEPT !.pc = "fetch", !.chan = chan, !.userId = owner]

\* a public-channel handler run whose closure holds a userId (912)
Skipping(chan, owner) ==
  [IdleJob EXCEPT !.pc = "done", !.chan = chan, !.userId = owner,
                  !.outcome = "skipped", !.regs = rt.subscribers]

\* a change notification arrives on the user channel (844-858)
UserNotification ==
  /\ rt.job.pc # "fetch"
  /\ rt.notes < MaxNotifications
  /\ rt.userChannel # NULL
  /\ rt.userChannel.status = "SUBSCRIBED"
  /\ cache' = HandlerClear(rt.userChannel.userId)
  /\ rt' = [rt EXCEPT !.notes = @ + 1,
                      !.job = Fetching("user", rt.userChannel.userId)]
  /\ UNCHANGED bridgeRest

\* a change notification arrives on the public channel (905-920)
PublicNotification ==
  /\ rt.job.pc # "fetch"
  /\ rt.notes < MaxNotifications
  /\ rt.realtimeChannel # NULL
  /\ rt.realtimeChannel.status = "SUBSCRIBED"
  /\ cache' = HandlerClear("public")
  /\ rt' = [rt EXCEPT !.notes = @ + 1, !.job =
       IF rt.realtimeChannel.userId = "none"
         THEN Fetching("public", "none")
         ELSE Skipping("public", rt.realtimeChannel.userId)]
  /\ UNCHANGED bridgeRest

\* how getPortfolioByQuarter(quarter, userId) can end for a handler
RefetchOutcomes == {"fresh", "fallback", "threw"}

\* subscribers.forEach(subscriber => subscriber(updatedData)) (862-868)
Broadcast(job, outcome) ==
  [job EXCEPT !.pc = "done", !.outcome = outcome,
              !.regs = rt.subscribers,
              !.calls = [c \in Callbacks |-> IF c \in rt.subscribers THEN 1 ELSE 0]]

\* the handler's refetch returns (855-871, 917-931): the data is broadcast, or
\* the error is logged
RefetchDone ==
  /\ rt.job.pc = "fetch"
  /\ \E outcome \in RefetchOutcomes :
       LET job == rt.job
           key == IF job.userId = "none" THEN QuarterKey ELSE UserKey
       IN /\ rt' = [rt EXCEPT !.job =
               IF outcome = "threw"
                 THEN [job EXCEPT !.pc = "done", !.outcome = "threw",
                                  !.regs = rt.subscribers]
                 ELSE Broadcast(job, outcome)]
          /\ cache' = IF outcome = "fresh"
                        THEN [cache EXCEPT ![key] =
                                [data |-> LiveData(key, now), timestamp |-> now]]
                        ELSE cache
  /\ UNCHANGED bridgeRest

NextBridge ==
  \/ \E c \in Callbacks : SubscribeToUpdates(c)
  \/ \E c \in Callbacks : UnsubscribeUpdates(c)
  \/ ChannelJoined("userChannel")
  \/ ChannelJoined("realtimeChannel")
  \/ UserChannelError
  \/ PublicChannelError
  \/ ReconnectTimer
  \/ UserNotification
  \/ PublicNotification
  \/ RefetchDone

SpecBridge == InitBridge /\ [][NextBridge]_allVars

\* the timers, the joins and the refetches of the bridge are not starved;
\* subscribeToUpdates, the unsubscribe functions, change notifications and
\* channel errors happen when the components and the backend choose
LiveBridge ==
  /\ SpecBridge
  /\ WF_allVars(ReconnectTimer)
  /\ WF_allVars(ChannelJoined("userChannel"))
  /\ WF_allVars(ChannelJoined("realtimeChannel"))
  /\ WF_allVars(RefetchDone)

\* ========================================================= claims C21-C24

\* the scope a channel's notifications are about
Matches(chan, c) == (chan = "user") <=> (OwnerOf(c) # "none")

\* C21: on a change notification the handler (a) leaves no cache entry of the
\* notified scope, (b) refetches that scope whenever a callback of that scope
\* is registered, and (c) when the refetch returned data, has invoked every
\* callback of that scope registered at that moment exactly once
C21_NotifyRefresh ==
  [][/\ (rt'.notes = rt.notes + 1)
          => \A k \in Keys :
               KeyIncludes(k, IF rt'.job.chan = "user" THEN rt.userChannel.userId
                              ELSE "public")
                 => cache'[k] = NULL
     /\ (rt.job.pc # "done" /\ rt'.job.pc = "done")
          => LET job == rt'.job
                 due == {c \in job.regs : Matches(job.chan, c)}
             IN /\ due # {} => job.outcome # "skipped"
                /\ job.outcome \in {"fresh", "fallback"}
                     => \A c \in due : job.calls[c] = 1]_allVars

\* C22: no channel is open while no callback is subscribed, and the public
\* channel is open whenever a callback is subscribed
C22_ChannelLifecycle ==
  /\ rt.subscribers = {} => rt.userChannel = NULL /\ rt.realtimeChannel = NULL
  /\ rt.subscribers # {} => rt.realtimeChannel # NULL

\* the last subscriber has left after channels had been opened
C22_Witness ==
  /\ rt.subs >= 2
  /\ rt.subscribers = {}
  /\ rt.realtimeChannel = NULL

\* C23: a handler run of the user channel invokes no callback subscribed
\* without a userId, and a handler run of the public channel invokes no
\* callback subscribed with a userId
C23_ScopeIsolation ==
  \A c \in Callbacks :
    rt.job.calls[c] > 0 => Matches(rt.job.chan, c)

\* C24: after a CHANNEL_ERROR on the user channel, the channel is subscribed
\* again, unless the callback subscribed with the userId has left
C24_Reconnect ==
  (rt.userChannel # NULL /\ rt.userChannel.status = "CHANNEL_ERROR")
    ~> (\/ rt.userChannel # NULL /\ rt.userChannel.status = "SUBSCRIBED"
        \/ "f" \notin rt.subscribers)

\* ======================================= PortfolioService.clearCache alone
\* clearCache (App.tsx:693-706) applied to a cache Map of the keys the
\* service builds (385, 509, 577), the key strings being token sequences.

K_portfolioPublic == <<"portfolio", "_", "Q4-2024", "_", "public">>
K_portfolioUser == <<"portfolio", "_", "Q4-2024", "_", "u1">>
K_summaryUser == <<"summary", "_", "u1", "_", "all">>
K_quartersPublic == <<"quarters", "_", "public">>
ServiceKeys == {K_portfolioPublic, K_portfolioUser, K_summaryUser, K_quartersPublic}

\* the argument of clearCache: omitted (NULL), or a string [str], '' included
Patterns ==
  {NULL} \cup
  {[str |-> p] : p \in {Empty, <<"u1">>, <<"public">>, <<"_", "u1", "_">>,
                        <<"Q4-2024">>, <<"historical">>}}

AnEntry == [data |-> "rows", timestamp |-> 0]

\* a test that only looks at the start of the key
Includes_Prefix(s, sub) == StartsWith(s, sub)

\* String.prototype.includes
Includes(s, sub) ==
  \E i \in 1..(Len(s) - Len(sub) + 1) : SubSeq(s, i, i + Len(sub) - 1) = sub

\* clearCache(pattern) on the Map `map`: the Map afterwards
ClearCacheFn(map, pattern) ==
  IF pattern # NULL /\ pattern.str # Empty
    THEN LET keysToDelete == {k \in ServiceKeys : map[k] # NULL /\ Includes(k, pattern.str)}
         IN [k \in ServiceKeys |-> IF k \in keysToDelete THEN NULL ELSE map[k]]
    ELSE [k \in ServiceKeys |-> NULL]

\* everything but the call under examination is idle
ExamBase ==
  /\ now = 0
  /\ ticks = 0
  /\ win = W_root
  /\ locStore = NULL
  /\ pendStore = NULL
  /\ ret = NoCall
  /\ prev = NULL
  /\ onlyExcluded = TRUE
  /\ AuthIdle
  /\ ServiceIdle
  /\ ProbeIdle /\ HealthIdle /\ MutIdle /\ ProviderIdle /\ CallbackIdle
  /\ BridgeIdle

examRest == <<smVars, authVars, cacheVars, probe, cm, mut, ap, cb, rt>>

InitClear ==
  /\ ExamBase
  /\ \E map \in [ServiceKeys -> {NULL, AnEntry}], pattern \in Patterns :
       fx = [op |-> "clearCache", pc |-> "ready", map |-> map,
             pattern |-> pattern, before |-> map]

ClearCacheCall ==
  /\ fx.op = "clearCache"
  /\ fx.pc = "ready"
  /\ fx' = [fx EXCEPT !.pc = "done", !.map = ClearCacheFn(fx.map, fx.pattern)]
  /\ UNCHANGED examRest

NextClear == ClearCacheCall

SpecClear == InitClear /\ [][NextClear]_allVars

\* ================================================================ claim C25
\* pattern occurs in key, position by position
Contains(key, pattern) ==
  \E i \in 0..Len(key) :
    /\ i + Len(pattern) <= Len(key)
    /\ \A n \in 1..Len(pattern) : key[i + n] = pattern[n]

\* C25: after clearCache(pattern) every entry whose key contains pattern is
\* gone and every other entry is as it was; after clearCache() with no
\* pattern no entry is left
C25_ClearCache ==
  (fx.op = "clearCache" /\ fx.pc = "done") =>
    \A k \in ServiceKeys :
      IF fx.pattern = NULL THEN fx.map[k] = NULL
      ELSE IF Contains(k, fx.pattern.str) THEN fx.map[k] = NULL
      ELSE fx.map[k] = fx.before[k]

\* a pattern removed one entry and left another
C25_Witness ==
  /\ fx.op = "clearCache" /\ fx.pc = "done"
  /\ fx.pattern = [str |-> <<"u1">>]
  /\ fx.before[K_summaryUser] # NULL /\ fx.map[K_summaryUser] = NULL
  /\ fx.before[K_quartersPublic] # NULL /\ fx.map[K_quartersPublic] # NULL

\* ================================= ConnectionManager.executeWithRetry alone
\* One run of executeWithRetry(queryFn, maxRetries) (connectionManager.ts:
\* 181-223).  Error messages are sequences of words.

E_network == [message |-> <<"Network", "request", "failed">>]
E_validation == [message |-> <<"invalid", "input", "syntax">>]
\* an error object that has no message property
E_noMessage == [code |-> "23514"]
QueryErrors == {E_network, E_validation, E_noMessage}

\* the maxRetries argument (default 3, line 184)
MaxRetriesArgs == 0..3

\* String.prototype.toLowerCase, word by word
LowerWord(w) == IF w = "Network" THEN "network" ELSE w
ToLowerCase(s) == [i \in 1..Len(s) |-> LowerWord(s[i])]

connectionKeywords ==
  {<<"connection">>, <<"network">>, <<"timeout">>, <<"unreachable">>,
   <<"refused">>, <<"reset">>, <<"disconnected">>}

\* isConnectionError(error) (228-243)
IsConnectionError(error) ==
  IF error = NULL THEN FALSE
  ELSE LET errorMessage == IF "message" \notin DOMAIN error THEN Empty
                           ELSE ToLowerCase(error.message)
       IN \E keyword \in connectionKeywords : Includes(errorMessage, keyword)

\* the run as it enters the for loop (185-187)
RunStart(m) ==
  [op |-> "executeWithRetry", pc |-> "top", maxRetries |-> m, attempt |-> 0,
   queries |-> 0,         \* calls of queryFn so far
   how |-> "none",        \* the last queryFn call: "ok" | "returned" | "thrown"
   lastError |-> NULL,
   result |-> NULL]       \* what the run returned: [data, error]

InitQuery ==
  /\ ExamBase
  /\ \E m \in MaxRetriesArgs : fx = RunStart(m)

\* the next iteration, or the exit of the loop (187, 222)
NextAttempt(run) ==
  IF run.attempt + 1 <= run.maxRetries
    THEN [run EXCEPT !.attempt = @ + 1, !.pc = "top"]
    ELSE [run EXCEPT !.attempt = @ + 1, !.pc = "done",
                     !.result = [data |-> NULL, error |-> run.lastError]]

\* the connection test before the query (190-196): with the health not
\* connected and testConnection() false, an attempt short of the last one
\* calls retryConnection() and continues
Precheck ==
  /\ fx.op = "executeWithRetry"
  /\ fx.pc = "top"
  /\ \E connected \in BOOLEAN :
       fx' = IF ~connected /\ fx.attempt < fx.maxRetries
               THEN NextAttempt(fx)
               ELSE [fx EXCEPT !.pc = "query"]
  /\ UNCHANGED examRest

\* queryFn resolved with { data, error: null } (198, 212)
QueryOk ==
  /\ fx.op = "executeWithRetry"
  /\ fx.pc = "query"
  /\ fx' = [fx EXCEPT !.queries = @ + 1, !.how = "ok", !.pc = "done",
                      !.result = [data |-> "rows", error |-> NULL]]
  /\ UNCHANGED examRest

\* queryFn resolved with an error in its result (200-212)
QueryReturnedError ==
  /\ fx.op = "executeWithRetry"
  /\ fx.pc = "query"
  /\ \E e \in QueryErrors :
       LET run == [fx EXCEPT !.queries = @ + 1, !.how = "returned", !.lastError = e]
       IN fx' = IF IsConnectionError(e) /\ fx.attempt < fx.maxRetries
                  THEN NextAttempt(run)
                  ELSE [run EXCEPT !.pc = "done",
                                   !.result = [data |-> NULL, error |-> e]]
  /\ UNCHANGED examRest

\* queryFn threw (213-220): the error is kept, the delay is waited and the
\* loop goes on
QueryThrew ==
  /\ fx.op = "executeWithRetry"
  /\ fx.pc = "query"
  /\ \E e \in QueryErrors :
       fx' = NextAttempt([fx EXCEPT !.queries = @ + 1, !.how = "thrown",
                                    !.lastError = e])
  /\ UNCHANGED examRest

NextQuery ==
  \/ Precheck
  \/ QueryOk
  \/ QueryReturnedError
  \/ QueryThrew

SpecQuery == InitQuery /\ [][NextQuery]_allVars

\* ================================================================ claim C26
\* C26: a queryFn call that fails with an error outside the connection
\* vocabulary, returned or thrown, ends the run: the error is handed to the
\* caller and queryFn is not called again
C26_NoRetryOfOtherErrors ==
  [][(/\ fx.op = "executeWithRetry"
      /\ fx.pc = "query"
      /\ fx'.how \in {"returned", "thrown"}
      /\ ~IsConnectionError(fx'.lastError))
       => /\ fx'.pc = "done"
          /\ fx'.result.error = fx'.lastError]_allVars

\* ===================================== SessionManager storage getters alone
\* getPendingRedirect, getStoredLocation, getSessionMetadata and
\* getCachedData (sessionManager.ts:100-126, 143-168, 209-232, 271-291) on
\* whatever localStorage holds under their key.

\* sessionManager.ts:28  CACHE_TIMEOUT = 10 * 60 * 1000 ms
CACHE_TIMEOUT == 10

Getters == {"getPendingRedirect", "getStoredLocation", "getSessionMetadata",
            "getCachedData"}

\* the expiry limit a getter applies (110, 153, 220, 281)
TimeoutOf(g) ==
  IF g = "getPendingRedirect" THEN PENDING_TIMEOUT
  ELSE IF g = "getCachedData" THEN CACHE_TIMEOUT
  ELSE SESSION_TIMEOUT

\* what a getter returns for "nothing": null, or {} for getCachedData
EmptyObject == [object |-> "{}"]
AbsentOf(g) == IF g = "getCachedData" THEN EmptyObject ELSE NULL

\* the content an application write puts under a key
Payload == [content |-> TRUE]

\* what localStorage.getItem returns: null ("missing"), '' ("empty"), a
\* string that is not JSON ("garbage"), the JSON text null ("null"), or the
\* JSON text of an object; an object has a numeric timestamp [n] or none,
\* and the content field of its key (redirectTo, locationState, userId,
\* data) or none
RawEntries ==
  {[kind |-> k] : k \in {"missing", "empty", "garbage", "null"}}
  \cup {[kind |-> "object", timestamp |-> ts, content |-> c] :
          ts \in {NULL, [n |-> 0]}, c \in {NULL, Payload}}

\* Date.now() when the getter runs: the entry of timestamp 0 is new, at its
\* limit, or past it
TimesOf(g) == {0, TimeoutOf(g), TimeoutOf(g) + 1}

\* Date.now() - x.timestamp > limit; with no timestamp the difference is NaN
\* and the comparison is false
JsExpired(ts, t, limit) == IF ts = NULL THEN FALSE ELSE t - ts.n > limit

\* the default getStoredLocation builds when there is no locationState (159-164)
DefaultLocation(ts) ==
  [path |-> P_momentum, search |-> Empty, hash |-> Empty, timestamp |-> ts]

\* the return statement of getter g for the parsed object `parsed`
\* (117-120, 159-164, 225-228, 286)
Returned(g, parsed) ==
  IF g = "getPendingRedirect" THEN [redirectTo |-> parsed.content]
  ELSE IF g = "getStoredLocation"
    THEN (IF parsed.content # NULL THEN [locationState |-> parsed.content]
          ELSE DefaultLocation(parsed.timestamp))
  ELSE IF g = "getSessionMetadata" THEN [userId |-> parsed.content]
  ELSE (IF parsed.content # NULL THEN [data |-> parsed.content] ELSE EmptyObject)

\* the try block of getter g: [threw], or [val: the value returned,
\* raw: the key afterwards]
TryBody(g, raw, t) ==
  IF raw.kind \in {"missing", "empty"}
    THEN [threw |-> FALSE, val |-> AbsentOf(g), raw |-> raw]
  ELSE IF raw.kind \in {"garbage", "null"}
    \* JSON.parse throws, or .timestamp is read from null
    THEN [threw |-> TRUE, val |-> NULL, raw |-> raw]
  ELSE IF JsExpired(raw.timestamp, t, TimeoutOf(g))
    THEN [threw |-> FALSE, val |-> AbsentOf(g), raw |-> [kind |-> "missing"]]
  ELSE [threw |-> FALSE, val |-> Returned(g, raw),
        raw |-> IF g = "getPendingRedirect" THEN [kind |-> "missing"] ELSE raw]

\* getter g called at time t with `raw` under its key
GetterFn(g, raw, t) ==
  LET body == TryBody(g, raw, t)
  IN IF body.threw
       THEN [threw |-> FALSE, val |-> AbsentOf(g), raw |-> raw]
       ELSE body

InitGetters ==
  /\ ExamBase
  /\ \E g \in Getters, raw \in RawEntries :
       \E t \in TimesOf(g) :
         fx = [op |-> "getter", pc |-> "ready", g |-> g, raw |-> raw, t |-> t,
               threw |-> FALSE, val |-> NULL, after |-> raw]

GetterCall ==
  /\ fx.op = "getter"
  /\ fx.pc = "ready"
  /\ LET r == GetterFn(fx.g, fx.raw, fx.t)
     IN fx' = [fx EXCEPT !.pc = "done", !.threw = r.threw, !.val = r.val,
                         !.after = r.raw]
  /\ UNCHANGED examRest

NextGetters == GetterCall

SpecGetters == InitGetters /\ [][NextGetters]_allVars

\* ================================================================ claim C27
\* an entry the application wrote and that has not expired
Sound(g, raw, t) ==
  /\ raw.kind = "object"
  /\ raw.timestamp # NULL
  /\ raw.content # NULL
  /\ ~(t - raw.timestamp.n > TimeoutOf(g))

\* C27: a storage getter never throws, and for an entry that is missing,
\* unparseable, wrongly shaped or expired it returns null (getCachedData: {})
C27_GettersTolerant ==
  (fx.op = "getter" /\ fx.pc = "done") =>
    /\ ~fx.threw
    /\ ~Sound(fx.g, fx.raw, fx.t) => fx.val = AbsentOf(fx.g)

\* ================================================================ claim C28
\* C28: a getCachedOrFetch call entered without forceFresh while the key has
\* an entry younger than CACHE_DURATION returns that entry at once: no
\* connection probe is started or awaited and fetchFn is not invoked
C28_HitWithoutNetwork ==
  [][\A c \in CallIds :
       (/\ calls[c].pc = "idle"
        /\ calls'[c].pc # "idle"
        /\ ~calls'[c].forceFresh
        /\ CacheFresh(cache[calls'[c].key], now))
         => /\ calls'[c].pc = "done"
            /\ calls'[c].out.kind = "hit"
            /\ connectionPromise' = connectionPromise]_allVars

\* ================================================================ claim C29
\* C29: a read that misses the cache executes the constituents query at most
\* once: no getPortfolioByQuarter call whose query has already answered is
\* executing it again
C29_OneLiveFetch ==
  \A c \in CallIds : calls[c].pc # "requery"

\* =================================================== reads under fair scheduling
\* Direct getCachedOrFetch calls and the hook's getPortfolioByQuarter loads
\* together, within one minute (an entry, once cached, is younger than
\* CACHE_DURATION; forceFresh calls take the path of an expired one)
NextReads ==
  \/ GetCachedOrFetch /\ UNCHANGED extVars
  \/ LoadPortfolioData /\ UNCHANGED extVars
  \/ TestConnectionDone /\ UNCHANGED extVars
  \/ \E c \in CallIds : AfterProbe(c) /\ UNCHANGED extVars
  \/ \E c \in CallIds : RetryTimer(c) /\ UNCHANGED extVars
  \/ \E c \in CallIds : AfterRetry(c) /\ UNCHANGED extVars
  \/ \E c \in CallIds : QueryDone(c) /\ UNCHANGED extVars
  \/ \E c \in CallIds : FnRetryTimer(c) /\ UNCHANGED extVars
  \/ \E c \in CallIds : AfterFnProbe(c) /\ UNCHANGED extVars
  \/ \E c \in CallIds : RequeryDone(c) /\ UNCHANGED extVars
  \/ \E c \in CallIds : Return(c) /\ UNCHANGED extVars
  \/ LoadPortfolioDataDone /\ UNCHANGED extVars

SpecReads == InitCache /\ [][NextReads]_allVars

\* every network call is answered, every timer fires and every continuation
\* runs; new calls and the clock are not forced. A response or a timer is a
\* task of the event loop: it waits while continuations of other calls run and
\* is taken up when they have drained, hence the strong fairness
LiveReads ==
  /\ SpecReads
  /\ SF_allVars(TestConnectionDone /\ UNCHANGED extVars)
  /\ \A c \in CallIds :
       /\ WF_allVars(AfterProbe(c) /\ UNCHANGED extVars)
       /\ SF_allVars(RetryTimer(c) /\ UNCHANGED extVars)
       /\ WF_allVars(AfterRetry(c) /\ UNCHANGED extVars)
       /\ SF_allVars(QueryDone(c) /\ UNCHANGED extVars)
       /\ SF_allVars(FnRetryTimer(c) /\ UNCHANGED extVars)
       /\ WF_allVars(AfterFnProbe(c) /\ UNCHANGED extVars)
       /\ SF_allVars(RequeryDone(c) /\ UNCHANGED extVars)

\* ====================== PortfolioService.getPortfolioByQuarter, earlier variant
\* src/unnamed/part_004: getCachedOrFetch looks at the cache and calls
\* fetchFn (46-63); the fetchFn of getPortfolioByQuarter retries by calling
\* getPortfolioByQuarter again (146-159) and returns [] on every failure.

\* the retries one call is followed through
MaxEarlierTries == 4

\* the empty array a failed fetchFn resolves with (143, 157, 166)
EmptyList(k) == [src |-> "none", key |-> k]

\* a getPortfolioByQuarter call of the earlier variant: pc is "fetching"
\* (the query is out), "backoff" (the timer of line 153 is set) or "done"
EarlierCall(pc, k, tries, out) ==
  [pc |-> pc, key |-> k, forceFresh |-> FALSE, fallback |-> FALSE,
   fn |-> "earlier", probe |-> "none", retried |-> FALSE, out |-> out,
   tries |-> tries]      \* recursive calls made so far

\* getCachedOrFetch (46-63) entered by call c, at first or by a recursive
\* call: a fresh entry is returned, else fetchFn sends the query
EarlierEnter(c, k, tries) ==
  IF CacheFresh(cache[k], now)
    THEN calls' = [calls EXCEPT ![c] =
           EarlierCall("done", k, tries, [kind |-> "hit", data |-> cache[k].data])]
    ELSE calls' = [calls EXCEPT ![c] = EarlierCall("fetching", k, tries, NoResult)]

\* getPortfolioByQuarter(quarter, userId) is called
EarlierStart ==
  /\ \E c \in CallIds, k \in Keys :
       /\ calls[c].pc = "idle"
       /\ \A d \in CallIds : d < c => calls[d].pc # "idle"
       /\ EarlierEnter(c, k, 0)
  /\ UNCHANGED <<cache, isConnected, connectionRetries, connectionPromise,
                 fetchLog, hook, now, ticks, sessionRest, authVars>>

\* fetchFn resolved with `data`: every getCachedOrFetch frame of the call
\* caches it and returns it (60-62)
EarlierResolved(c, data, kind) ==
  /\ cache' = [cache EXCEPT ![calls[c].key] = [data |-> data, timestamp |-> now]]
  /\ calls' = [calls EXCEPT ![c] =
       EarlierCall("done", calls[c].key, calls[c].tries,
                   [kind |-> kind, data |-> data])]

\* this.connectionRetries < this.maxRetries (150)
EarlierMayRetry(c) == connectionRetries < maxRetries

\* the query of fetchFn ends (134-163)
EarlierQueryDone(c) ==
  /\ calls[c].pc = "fetching"
  /\ calls[c].fn = "earlier"
  /\ \E res \in {"ok", "threw", "error", "connection"} :
       CASE res = "ok" ->
              /\ connectionRetries' = 0
              /\ EarlierResolved(c, LiveData(calls[c].key, now), "fresh")
         [] res \in {"threw", "error"} ->
              /\ EarlierResolved(c, EmptyList(calls[c].key), "empty")
              /\ UNCHANGED connectionRetries
         [] res = "connection" ->
              IF EarlierMayRetry(c) /\ calls[c].tries < MaxEarlierTries
                THEN /\ connectionRetries' = connectionRetries + 1
                     /\ calls' = [calls EXCEPT ![c].pc = "backoff",
                                               ![c].tries = @ + 1]
                     /\ UNCHANGED cache
                ELSE /\ EarlierResolved(c, EmptyList(calls[c].key), "empty")
                     /\ UNCHANGED connectionRetries
  /\ UNCHANGED <<isConnected, connectionPromise, fetchLog, hook, now, ticks,
                 sessionRest, authVars>>

\* the timer of line 153 fires: getPortfolioByQuarter is called again (154)
EarlierRetryTimer(c) ==
  /\ calls[c].pc = "backoff"
  /\ EarlierEnter(c, calls[c].key, calls[c].tries)
  /\ UNCHANGED <<cache, isConnected, connectionRetries, connectionPromise,
                 fetchLog, hook, now, ticks, sessionRest, authVars>>

NextEarlier ==
  \/ EarlierStart /\ UNCHANGED extVars
  \/ \E c \in CallIds : EarlierQueryDone(c) /\ UNCHANGED extVars
  \/ \E c \in CallIds : EarlierRetryTimer(c) /\ UNCHANGED extVars
  \/ \E c \in CallIds : Return(c) /\ UNCHANGED extVars

SpecEarlier == InitCache /\ [][NextEarlier]_allVars

\* every query is answered and every timer fires
LiveEarlier ==
  /\ SpecEarlier
  /\ \A c \in CallIds :
       /\ WF_allVars(EarlierQueryDone(c) /\ UNCHANGED extVars)
       /\ WF_allVars(EarlierRetryTimer(c) /\ UNCHANGED extVars)

\* ================================================================ claim C30
\* the connection retries call c has made
TriesOf(call) ==
  IF call.fn = "earlier" THEN call.tries
  ELSE (IF call.retried THEN 1 ELSE 0)
       + (IF call.pc \in {"fnRetryWait", "fnProbe", "fnProbed", "requery"}
            THEN 1 ELSE 0)

\* C30: every call ends, in data or in an error, and does so having made at
\* most maxRetries connection retries; the retry counter of the service never
\* exceeds maxRetries
C30_BoundedTermination ==
  /\ \A c \in CallIds :
       (calls[c].pc \notin {"idle", "done"}) ~> (calls[c].pc = "done")
  /\ [](\A c \in CallIds :
          /\ TriesOf(calls[c]) <= maxRetries
          /\ calls[c].pc = "done" =>
               calls[c].out.kind \in {"fresh", "hit", "stale", "fallback",
                                      "empty", "connError", "fetchError"})
  /\ [](connectionRetries <= maxRetries)

\* ================= AuthProvider.restoreSession and the session-restore effect
\* part_006:416-461 and 534-541, AuthContext.tsx:264-298.

\* restoreSession calls that are told apart
MaxRestores == 3

\* getSessionMetadata (sessionManager.ts:209-232): the entry, unless it is
\* older than SESSION_TIMEOUT
MetaValid(a) == a.meta # NULL /\ ~(now - a.metaAt > SESSION_TIMEOUT)

\* the effect's dependencies [user, loading] differ from those of its last run
EffectDue == [user |-> ap.user, loading |-> ap.loading] # ap.seen

\* if (sessionMetadata && !user && !loading)
ShouldRestore(a) == MetaValid(a) /\ a.user = NULL /\ ~a.loading

\* the restore effect runs after a render that changed user or loading; an
\* expired entry is removed by the read (sessionManager.ts:219-221);
\* restoreSession starts with setLoading(true), and the render that follows
\* runs the effect again, to no avail
RestoreEffect ==
  /\ EffectDue
  /\ LET a == [ap EXCEPT !.meta = IF MetaValid(ap) THEN @ ELSE NULL] IN
       IF ShouldRestore(ap) /\ ap.rs = "none"
       THEN ap' = [a EXCEPT
              !.loading = TRUE,
              !.rs = IF a.variant = "part_006" THEN "probe" ELSE "session",
              !.rsConn = a.isConnected,
              !.rsUser = NULL,
              !.restores = IF @ < MaxRestores THEN @ + 1 ELSE @,
              !.seen = [user |-> a.user, loading |-> TRUE]]
       ELSE ap' = [a EXCEPT !.seen = [user |-> a.user, loading |-> a.loading]]
  /\ UNCHANGED <<win, locStore, pendStore, idp, provRest>>

\* restoreSession ends: finally { setLoading(false) }
RestoreFinally(a) == [a EXCEPT !.loading = FALSE, !.rs = "none"]

\* restoreSession of part_006: `await testConnection()` ends (422-427)
RestoreProbeDone ==
  /\ ap.rs = "probe"
  /\ \E ok \in BOOLEAN :
       Render(IF ok THEN [Probed(ap, TRUE) EXCEPT !.rs = "session"]
              ELSE RestoreFinally(Probed(ap, FALSE)))
  /\ UNCHANGED <<win, pendStore, idp, provRest>>

\* restoreSession after getSession (part_006:429-454, AuthContext.tsx:269-284)
RestoreSessionDone ==
  /\ ap.rs = "session"
  /\ \E r \in SessionOutcomes :
       CASE r \in {"error", "throw"} ->
              Render(RestoreFinally(
                [ap EXCEPT !.connectionError = IF ap.variant = "part_006"
                                                THEN TRUE ELSE @]))
         [] r = "none" -> Render(RestoreFinally(ap))
         [] r = "session" ->
              LET b == [ap EXCEPT !.session = idp, !.user = idp, !.rsUser = idp] IN
              \* fetchUserProfile: `if (!isConnected) return` (part_006:206)
              IF b.variant = "part_006" /\ ~b.rsConn
              THEN Render(RestoreFinally(b))
              ELSE Render([b EXCEPT !.rs = "rpc", !.rpc = idp])
  /\ UNCHANGED <<win, pendStore, idp, provRest>>

\* fetchUserProfile called by restoreSession: the rpc ends
RestoreRpcDone ==
  /\ ap.rs = "rpc"
  /\ ap' = [ap EXCEPT !.rs = "profile"]
  /\ UNCHANGED <<win, locStore, pendStore, idp, provRest>>

\* fetchUserProfile called by restoreSession, after the select: with a row,
\* setUserProfile(data) and storeSessionMetadata(userId, ...) (part_006:241-248)
RestoreProfileDone ==
  /\ ap.rs = "profile"
  /\ \E r \in {"row", "none", "error"} :
       CASE r = "row" ->
              Render(RestoreFinally([ap EXCEPT !.userProfile = ap.rsUser,
                                               !.meta = ap.rsUser,
                                               !.metaAt = now]))
         [] r = "error" -> Render(RestoreFinally(ap))
         [] r = "none" -> Render([ap EXCEPT !.rs = "create"])
  /\ UNCHANGED <<win, pendStore, idp, provRest>>

\* createUserProfile called by restoreSession's fetchUserProfile ends
RestoreCreateDone ==
  /\ ap.rs = "create"
  /\ \E ok \in BOOLEAN :
       Render(RestoreFinally(
         [ap EXCEPT !.userProfile = IF ok THEN ap.rsUser ELSE @]))
  /\ UNCHANGED <<win, pendStore, idp, provRest>>

\* more than SESSION_TIMEOUT passes
DayPasses ==
  /\ now <= SESSION_TIMEOUT
  /\ now' = now + SESSION_TIMEOUT + 1
  /\ UNCHANGED <<ticks, win, locStore, pendStore, ret, prev, onlyExcluded,
                 authVars, cacheVars, extVars>>

\* the provider with its restore effect: the effect runs with the render
\* that changed its dependencies, before any answer or click is handled
NextRestore ==
  \/ RestoreEffect
  \/ ~EffectDue /\ BgProbeDone
  \/ ~EffectDue /\ InitProbeDone
  \/ ~EffectDue /\ GetSessionDone
  \/ ~EffectDue /\ RpcDone
  \/ ~EffectDue /\ ProfileDone
  \/ ~EffectDue /\ CreateDone
  \/ ~EffectDue /\ SignOut
  \/ ~EffectDue /\ SignOutDone
  \/ ~EffectDue /\ RestoreProbeDone
  \/ ~EffectDue /\ RestoreSessionDone
  \/ ~EffectDue /\ RestoreRpcDone
  \/ ~EffectDue /\ RestoreProfileDone
  \/ ~EffectDue /\ RestoreCreateDone
  \/ ~EffectDue /\ DayPasses

\* the app loaded at /reports, with or without a session at the identity
\* provider and with or without SessionMetadata left by an earlier visit
\* (which outlives a session that the provider has ended)
InitRestore ==
  /\ now = 0
  /\ ticks = 0
  /\ win = W_reports
  /\ locStore = NULL
  /\ pendStore = NULL
  /\ ret = NoCall
  /\ prev = NULL
  /\ onlyExcluded = TRUE
  /\ page = "app"
  /\ idp \in {NULL, TheUser}
  /\ origin = NULL
  /\ attempts = 0
  /\ events = 0
  /\ timers = 0
  /\ cbPc = "idle"
  /\ cbRuns = 0
  /\ navs = << >>
  /\ ServiceIdle
  /\ ProbeIdle
  /\ HealthIdle
  /\ MutIdle
  /\ CallbackIdle
  /\ BridgeIdle
  /\ ExamIdle
  /\ \E v \in Variants, m \in {NULL, TheUser} : ap = Mounted(v, m)

SpecRestore == InitRestore /\ [][NextRestore]_allVars

\* ================================================================ claim C31
\* C31: once signOut has returned, user is null and SessionMetadata is absent
\* (no sign-in follows a sign-out here), whatever restoreSession,
\* fetchUserProfile or handler was under way when signOut was called
C31_SignedOutStays ==
  (ap.variant = "part_006" /\ ap.out = "returned")
    => /\ ap.user = NULL
       /\ ap.meta = NULL

\* ============ a change notification beside reads of the same collection
\* The user-channel handler of subscribeToUpdates (App.tsx:844-872) and
\* getPortfolioByQuarter(quarter, userId) calls of the page, on one service.
\* fx notes, for the one notification followed: job, the call the handler
\* awaits; early, the calls whose query was in flight when it arrived;
\* tainted, the keys whose entry holds the answer to such a query; delivered,
\* where the collection handed to the subscribers came from.

\* getPortfolioByQuarter(quarter, 'u1') is called by the page
QuarterRead ==
  /\ \E c \in CallIds :
       /\ StartCall(c, UserKey, FALSE, TRUE, "quarter")
       /\ fx' = IF fx.op = "deliver" THEN [fx EXCEPT !.early = @ \ {c}] ELSE fx
  /\ UNCHANGED <<now, ticks, sessionRest, authVars, hook, probe, cm, mut, ap, cb, rt>>

\* getPortfolioByQuarter passes forceFresh = false (App.tsx:502)
RefetchForced == FALSE

\* a notification arrives: clearCache(userId), then getPortfolioByQuarter is
\* entered and awaits testConnection() (848-855, 384, 263)
NotificationArrives ==
  /\ fx.op = "none"
  /\ Quiet
  /\ \E c \in CallIds :
       /\ calls[c].pc = "idle"
       /\ \A d \in CallIds : d < c => calls[d].pc # "idle"
       /\ cache' = HandlerClear("u1")
       /\ connectionPromise' = "pending"
       /\ calls' = [calls EXCEPT ![c] =
            [IdleCall EXCEPT !.pc = "probe1", !.key = UserKey,
                             !.forceFresh = RefetchForced,
                             !.fallback = TRUE, !.fn = "quarter"]]
       /\ fx' = [op |-> "deliver", job |-> c,
                 early |-> {d \in CallIds : calls[d].pc \in {"fetching", "requery"}},
                 tainted |-> {}, delivered |-> "none"]
  /\ UNCHANGED <<now, ticks, sessionRest, authVars, isConnected,
                 connectionRetries, fetchLog, hook, probe, cm, mut, ap, cb, rt>>

\* the query of call c is answered: whether the entry of its key now holds
\* the answer to a query sent before the notification
NoteWriter(c) ==
  fx' = IF fx.op = "deliver"
        THEN [fx EXCEPT
          !.early = @ \ {c},
          !.tainted = IF calls'[c].pc = "done" /\ calls'[c].out.kind = "fresh"
                      THEN IF c \in fx.early THEN @ \cup {calls[c].key}
                           ELSE @ \ {calls[c].key}
                      ELSE @]
        ELSE fx

\* the handler after `await this.getPortfolioByQuarter(...)`: the collection
\* is handed to every subscriber, or the error is logged (860-871)
Deliver ==
  /\ fx.op = "deliver"
  /\ fx.job # 0
  /\ calls[fx.job].pc = "done"
  /\ LET out == calls[fx.job].out IN
       fx' = [fx EXCEPT
         !.job = 0,
         !.delivered =
           IF out.kind \in {"connError", "fetchError"} THEN "nothing"
           ELSE IF out.kind \in {"hit", "stale"} /\ calls[fx.job].key \in fx.tainted
           THEN "early"
           ELSE out.kind]
  /\ calls' = [calls EXCEPT ![fx.job] = IdleCall]
  /\ UNCHANGED <<now, ticks, sessionRest, authVars, cache, isConnected,
                 connectionRetries, connectionPromise, fetchLog, hook,
                 probe, cm, mut, ap, cb, rt>>

\* the page has taken the result of its read
QuarterReturn(c) ==
  /\ ~(fx.op = "deliver" /\ fx.job = c)
  /\ Return(c)
  /\ UNCHANGED extVars

deliverRest == <<probe, cm, mut, ap, cb, rt>>

\* getPortfolioByQuarter passes fallbackData (502), so a failed probe ends in
\* the degraded answer and retryConnection (278-284) is not reached
NextDeliver ==
  \/ QuarterRead
  \/ NotificationArrives
  \/ TestConnectionDone /\ UNCHANGED extVars
  \/ \E c \in CallIds : AfterProbe(c) /\ UNCHANGED extVars
  \/ \E c \in CallIds : QueryDone(c) /\ NoteWriter(c) /\ UNCHANGED deliverRest
  \/ \E c \in CallIds : FnRetryTimer(c) /\ UNCHANGED extVars
  \/ \E c \in CallIds : AfterFnProbe(c) /\ UNCHANGED extVars
  \/ \E c \in CallIds : RequeryDone(c) /\ NoteWriter(c) /\ UNCHANGED deliverRest
  \/ \E c \in CallIds : QuarterReturn(c)
  \/ Deliver

SpecDeliver == InitCache /\ [][NextDeliver]_allVars

\* ================================================================ claim C32
\* C32: the collection handed to the subscribers for a notification is never
\* a cache entry written by a fetch that was already under way when the
\* notification arrived
C32_DeliveredIsNewer ==
  fx.op = "deliver" => fx.delivered # "early"

\* ================================================================ claim C33
\* every request of getInitialSession and of restoreSession is answered, and
\* the restore effect runs after the render that changed its dependencies
LiveRestore ==
  /\ SpecRestore
  /\ WF_allVars(RestoreEffect)
  /\ WF_allVars(~EffectDue /\ BgProbeDone)
  /\ WF_allVars(~EffectDue /\ InitProbeDone)
  /\ WF_allVars(~EffectDue /\ GetSessionDone)
  /\ WF_allVars(~EffectDue /\ RpcDone)
  /\ WF_allVars(~EffectDue /\ ProfileDone)
  /\ WF_allVars(~EffectDue /\ CreateDone)
  /\ WF_allVars(~EffectDue /\ SignOutDone)
  /\ WF_allVars(~EffectDue /\ RestoreProbeDone)
  /\ WF_allVars(~EffectDue /\ RestoreSessionDone)
  /\ WF_allVars(~EffectDue /\ RestoreRpcDone)
  /\ WF_allVars(~EffectDue /\ RestoreProfileDone)
  /\ WF_allVars(~EffectDue /\ RestoreCreateDone)

\* C33: unless a user is restored, the provider settles: from some point on
\* loading is false and no restoreSession is under way
C33_RestoreSettles ==
  \/ <>(ap.user # NULL)
  \/ <>[](~ap.loading /\ ap.rs = "none")

\* ===================== the owner filter of getPortfolioByQuarter's query
\* fx notes which query each call sent (filtered[c]: with .eq('user_id',
\* userId)) and unscoped, the user-scoped keys whose entry holds the answer
\* to a query with .is('user_id', null)
ScopeNotes == [op |-> "scope", filtered |-> [c \in CallIds |-> FALSE], unscoped |-> {}]
NotesOrNew == IF fx.op = "scope" THEN fx ELSE ScopeNotes

\* App.tsx:450  if (userId && this.isConnected): the query is filtered
UserFilter(k, connected) == k = UserKey /\ connected

\* getPortfolioByQuarter(quarter, userId) for the public or the user's list
ScopedRead ==
  /\ \E c \in CallIds, k \in Keys :
       StartCall(c, k, FALSE, TRUE, "quarter")
  /\ fx' = NotesOrNew
  /\ UNCHANGED <<now, ticks, sessionRest, authVars, hook, probe, cm, mut, ap, cb, rt>>

\* the round trip of a forceConnectionTest() (App.tsx:685-688, 209-233) ends,
\* beside whatever probe the reads are awaiting
ForcedTestDone ==
  /\ Quiet
  /\ \E ok \in BOOLEAN :
       /\ isConnected' = ok
       /\ connectionRetries' = IF ok THEN 0 ELSE connectionRetries
  /\ UNCHANGED <<now, ticks, sessionRest, authVars, cache, connectionPromise,
                 calls, fetchLog, hook, extVars>>

\* a continuation of call c that may invoke fetchFn: the filter of the query
\* is decided by the isConnected of that moment (439-461)
NoteFilter(c) ==
  fx' = IF calls'[c].pc = "fetching"
        THEN [NotesOrNew EXCEPT !.filtered[c] = UserFilter(calls[c].key, isConnected)]
        ELSE fx

\* the answer to the query of call c is cached (318)
NoteScope(c) ==
  fx' = IF calls'[c].pc = "done" /\ calls'[c].out.kind = "fresh"
        THEN [NotesOrNew EXCEPT !.unscoped =
                IF calls[c].key = UserKey /\ ~NotesOrNew.filtered[c]
                THEN @ \cup {calls[c].key} ELSE @ \ {calls[c].key}]
        ELSE fx

scopeRest == <<probe, cm, mut, ap, cb, rt>>

NextScope ==
  \/ ScopedRead
  \/ ForcedTestDone
  \/ TestConnectionDone /\ UNCHANGED extVars
  \/ \E c \in CallIds : AfterProbe(c) /\ NoteFilter(c) /\ UNCHANGED scopeRest
  \/ \E c \in CallIds : RetryTimer(c) /\ UNCHANGED extVars
  \/ \E c \in CallIds : AfterRetry(c) /\ NoteFilter(c) /\ UNCHANGED scopeRest
  \/ \E c \in CallIds : QueryDone(c) /\ NoteScope(c) /\ UNCHANGED scopeRest
  \/ \E c \in CallIds : FnRetryTimer(c) /\ UNCHANGED extVars
  \/ \E c \in CallIds : AfterFnProbe(c) /\ UNCHANGED extVars
  \/ \E c \in CallIds : RequeryDone(c) /\ NoteScope(c) /\ UNCHANGED scopeRest
  \/ \E c \in CallIds : Return(c) /\ UNCHANGED extVars

SpecScope == InitCache /\ [][NextScope]_allVars

\* ------------------------------------------------ the same, earlier variant
\* part_004:104-131: fetchFn asks getSession; `if (userId && session)` decides
\* the filter.  getSession answers with the session, with none, or throws
EarlierSessions == {"session", "none", "throw"}

\* part_004:120  if (userId && session)
EarlierFilter(k, s) == k = UserKey /\ s = "session"

\* getPortfolioByQuarter of part_004 is answered; the query it sent followed
\* the answer of its getSession
EarlierQueryScoped(c) ==
  /\ EarlierQueryDone(c)
  /\ \E s \in EarlierSessions :
       fx' = IF calls'[c].pc = "done" /\ calls'[c].out.kind = "fresh"
             THEN [NotesOrNew EXCEPT !.unscoped =
                     IF calls[c].key = UserKey /\ ~EarlierFilter(calls[c].key, s)
                     THEN @ \cup {calls[c].key} ELSE @ \ {calls[c].key}]
             ELSE fx
  /\ UNCHANGED scopeRest

NextScopeEarlier ==
  \/ EarlierStart /\ UNCHANGED extVars
  \/ \E c \in CallIds : EarlierQueryScoped(c)
  \/ \E c \in CallIds : EarlierRetryTimer(c) /\ UNCHANGED extVars
  \/ \E c \in CallIds : Return(c) /\ UNCHANGED extVars

SpecScopeEarlier == InitCache /\ [][NextScopeEarlier]_allVars

\* ================================================================ claim C34
\* C34: no entry under a user-scoped key holds the answer to the public query
C34_UserKeyIsScoped ==
  fx.op = "scope" => (\A k \in Keys : cache[k] # NULL => k \notin fx.unscoped)

\* ============================ ConnectionManager: round trips that overlap
\* fx tells the round trips of testConnection apart by the order in which
\* they were started: open, those in flight; of[c], the one retry caller c
\* awaits; res[p], how round trip p ended.  The constructor's is number 1.
ProbeNumbers == 1..MaxChecks
FirstFlying ==
  [op |-> "overlap", open |-> {1}, of |-> [c \in RetryCallers |-> 0],
   res |-> [p \in ProbeNumbers |-> "none"]]
Flying == IF fx.op = "overlap" THEN fx ELSE FirstFlying

\* the periodic check or forceHealthCheck calls testConnection()
CheckStarts ==
  /\ HealthCheck \/ ForceHealthCheck
  /\ fx' = [Flying EXCEPT !.open = @ \cup {cm.issued + 1}]
  /\ UNCHANGED <<smVars, authVars, cacheVars, probe, mut, ap, cb, rt>>

\* how the round trip that has just updated the health ended
Ended == IF cm'.health.isConnected THEN "ok" ELSE "fail"

\* one of the round trips of the monitoring or of forceHealthCheck ends
CheckEnds ==
  /\ HealthCheckDone
  /\ \E p \in Flying.open \ {Flying.of[c] : c \in RetryCallers} :
       fx' = [Flying EXCEPT !.open = @ \ {p}, !.res[p] = Ended]
  /\ UNCHANGED <<smVars, authVars, cacheVars, probe, mut, ap, cb, rt>>

\* the delay of a retry is over: its testConnection() starts a round trip
RetryStarts(c) ==
  /\ RetryDelayOver(c)
  /\ fx' = [Flying EXCEPT !.open = @ \cup {cm.issued + 1},
                          !.of[c] = cm.issued + 1]
  /\ UNCHANGED <<smVars, authVars, cacheVars, probe, mut, ap, cb, rt>>

\* the round trip of a retry ends
RetryEnds(c) ==
  /\ RetryProbeDone(c)
  /\ fx' = [Flying EXCEPT !.open = @ \ {Flying.of[c]},
                          !.res[Flying.of[c]] = Ended,
                          !.of[c] = 0]
  /\ UNCHANGED <<smVars, authVars, cacheVars, probe, mut, ap, cb, rt>>

NextOverlap ==
  \/ CheckStarts
  \/ CheckEnds
  \/ \E c \in RetryCallers : RetryConnection(c) /\ UNCHANGED cmOthers
  \/ \E c \in RetryCallers : RetryStarts(c)
  \/ \E c \in RetryCallers : RetryEnds(c)
  \/ \E c \in RetryCallers : RetryReturn(c) /\ UNCHANGED cmOthers

SpecOverlap == InitHealth /\ [][NextOverlap]_allVars

\* ================================================================ claim C35
\* C35: when no round trip is in flight, the health holds the outcome of the
\* round trip that was started last
C35_LastStartedWins ==
  (fx.op = "overlap" /\ fx.open = {})
    => cm.health.isConnected = (fx.res[cm.issued] = "ok")

\* ================================================================ claim C36
\* ------------------------- the scope of the collection a handler broadcasts

\* the user whose collection a handler run fetches: the userId its closure
\* holds, which is the one of the subscribeToUpdates call that created the
\* channel (855-858, 917-920); the quarter is held by the same closure
FetchedFor(job) == job.userId

\* C36: every callback a handler run invokes is handed the collection of the
\* user (and quarter) it was subscribed with, also while callbacks with
\* different users are registered together
C36_OwnCollectionOnly ==
  \A c \in Callbacks :
    rt.job.calls[c] > 0 => FetchedFor(rt.job) = OwnerOf(c)

ReportedError(chan) == chan.status = "CHANNEL_ERROR"

\* C38: the teardown that a CHANNEL_ERROR scheduled closes only the channel
\* that reported the error, never a user channel made after it
C38_TeardownOwnChannel ==
  [][(rt'.timers = rt.timers - 1 /\ rt.userChannel # NULL)
       => ReportedError(rt.userChannel)]_allVars

\* ============================================================ claims C39-C40
\* ------------------- ConnectionManager: every way the health is replaced

\* periodic probes, forced health checks, retryConnection calls and resets
NextHealth ==
  \/ HealthCheck /\ UNCHANGED cmOthers
  \/ ForceHealthCheck /\ UNCHANGED cmOthers
  \/ HealthCheckDone /\ UNCHANGED cmOthers
  \/ Reset /\ UNCHANGED cmOthers
  \/ \E c \in RetryCallers : RetryConnection(c) /\ UNCHANGED cmOthers
  \/ \E c \in RetryCallers : RetryDelayOver(c) /\ UNCHANGED cmOthers
  \/ \E c \in RetryCallers : RetryProbeDone(c) /\ UNCHANGED cmOthers
  \/ \E c \in RetryCallers : RetryReturn(c) /\ UNCHANGED cmOthers

SpecHealth == InitHealth /\ [][NextHealth]_allVars

\* the health a failed round trip leaves, given the health before it
FailedFrom(old, new) ==
  /\ ~new.isConnected
  /\ new.error # "none"
  /\ new.retryCount = old.retryCount + 1

\* C39: whenever the health says isConnected, its retryCount is 0 and its
\* error is null; and the update made by a failed probe leaves isConnected
\* false, a non-null error and the retry count one above what it replaced
C39_HealthShape ==
  /\ [](cm.health.isConnected
          => cm.health.retryCount = 0 /\ cm.health.error = "none")
  /\ [][/\ \A c \in RetryCallers :
             (cm.retry[c].pc = "probing" /\ cm'.retry[c].res = "fail")
               => FailedFrom(cm.health, cm'.health)
        /\ (cm'.flying < cm.flying /\ ~cm'.health.isConnected)
             => FailedFrom(cm.health, cm'.health)]_allVars

\* the health is connected again after a retry's probe failed, three or more
\* health updates in
C39_Witness ==
  /\ cm.health.isConnected
  /\ cm.serial >= 3
  /\ \E c \in RetryCallers : cm.retry[c].res = "fail"

\* C40: health.retryCount never exceeds MAX_RETRIES, whatever periodic
\* probes, forced health checks and retryConnection calls are made
C40_RetryCountCapped == cm.health.retryCount <= MAX_RETRIES

====
